---- MODULE Spec2Model ----
(***************************************************************************)
(* Model of the two scenario runners of the MQTT test harness:             *)
(*   runInflightTest            (src/inflighttester.js)                    *)
(*   runSharedSubscriptionTest  (src/sharedsubtester.js)                   *)
(* The harness is a single-threaded event loop: every action below is one  *)
(* run-to-completion callback (a timer, a packet arriving on a client, a   *)
(* resumed await).  The MQTT client library, the network and the broker    *)
(* are the environment.  Time is kept as the remaining delay of every      *)
(* pending timer, in units of 100 ms.                                      *)
(***************************************************************************)
EXTENDS Integers, Sequences, FiniteSets, TLC

-----------------------------------------------------------------------------
(* Bounds of the model. *)
MaxSubs == 2
MaxPubs == 2
MaxMsgs == 3
MaxGroups == 2
MaxSharedMsgs == 2
MaxFaults == 1
MaxForeign == 2

(* Durations of the source, in units of 100 ms. *)
SubSettleDelay == 20
PubSettleDelay == 20
PreDisconnectDelay == 10
ReconnectDelay == 30
PostDisconnectDelay == 10
PublishDelay == 2
waitTime == 80
SubReconnectPeriod == 50
PubReconnectPeriod == 10
SharedSettleDelay == 20
SharedPublishDelay == 3
SharedReconnectDelay == 50
SharedDrainDelay == 50
SharedSessionExpiry == 300
SharedReSubSessionExpiry == 300
HalfwayDivisor == 5
SharedHalfwayDivisor == 2
DefaultSessionExpiry == 5
TicksPerSecond == 1000 \div 100

NoTimer == 0 - 1
Running == 0 - 1

VARIABLES
    runner,             \* "inflight" | "shared": which script is run
    argv,               \* the parsed command line
    rejects,            \* identities whose CONNECT the broker never accepts
    pc,                 \* where the main async function is suspended
    exitCode,           \* Running, or the code given to process.exit
    errors,             \* what console.error has reported
    conn,               \* state of every client object created by mqtt.connect
    subscribers,        \* subscribers[i].client: 1 = original, 2 = reSub
    subReady,           \* SUBACK barrier promises that are resolved
    receivedMap,        \* inflight ledger: subscriber -> set of keys
    groupsReceivedMap,  \* shared ledger: group -> payload -> list of receivers
    publishedCount,
    halfwayTriggered,
    seq,                \* loop variable of each publisher's loop
    loop,               \* where each publisher's loop is suspended
    timers,             \* remaining delay of every pending timer
    brokerSub,          \* broker: the identity's session holds the subscription
    inflight,           \* broker: messages owed to an identity, delivered promptly
    late,               \* broker: messages owed to an identity, delayed
    stalled,            \* client objects whose pending network step is delayed
    faults,             \* number of irregularities of the environment so far
    foreign,            \* number of payloads other clients have published
    emitted,            \* history: the publish calls issued, in order
    gotSuback,          \* history: client objects that received a SUBACK
    opened,             \* history: number of mqtt.connect calls
    verdict,            \* PASS/FAIL per subscriber (inflight) or group (shared)
    overallPass,
    csvRows,
    injections,         \* history: the publish counts at which the fault injection began
    arrivals,           \* history: number of 'message' events per subscriber
    driver,             \* the multi-publisher driver (startPublisher and its globals)
    subRequests,        \* history: what every subscriber client connected and subscribed with
    tester,             \* mqttMultiSubTester: its clients, counters and handlers
    main                \* mqttMultiSubMain and its workers

vars == <<runner, argv, rejects, pc, exitCode, errors, conn, subscribers,
          subReady, receivedMap, groupsReceivedMap, publishedCount,
          halfwayTriggered, seq, loop, timers, brokerSub, inflight, late,
          stalled, faults, foreign, emitted, gotSuback, opened, verdict,
          overallPass, csvRows, injections, arrivals, driver, subRequests,
          tester, main>>

-----------------------------------------------------------------------------
(* Configuration. *)
numSubs == argv.subs
numGroups == argv.groups
subsPerGroup == argv.subsPerGroup
numPublishers == argv.publishers
messagesPerPub == argv.messagesPerPub
qos == argv.qos
edgeDisconnect == argv.edgeDisconnect
sessionExpiry == IF runner = "inflight" THEN argv.sessionExpiry ELSE SharedSessionExpiry

Inflight == runner = "inflight"
Shared == runner = "shared"

NumSubscribers == IF Inflight THEN numSubs ELSE numGroups * subsPerGroup
SubIdx == 0 .. (NumSubscribers - 1)
PubIdx == 0 .. (numPublishers - 1)
GroupIdx == 0 .. (numGroups - 1)
GroupOf(i) == i \div subsPerGroup
Members(g) == {i \in SubIdx : GroupOf(i) = g}

totalMessages == numPublishers * messagesPerPub
halfwayCount ==
    IF Inflight THEN totalMessages \div HalfwayDivisor
    ELSE totalMessages \div SharedHalfwayDivisor

ConfigInvalid_and ==
    IF Inflight THEN numSubs < 1 /\ numPublishers < 1
    ELSE numGroups < 1 /\ subsPerGroup < 1 /\ numPublishers < 1

ConfigInvalid ==
    IF Inflight THEN numSubs < 1 \/ numPublishers < 1
    ELSE numGroups < 1 \/ subsPerGroup < 1 \/ numPublishers < 1

-----------------------------------------------------------------------------
(* Strings.  A string is the sequence of its tokens: the fixed pieces of  *)
(* the source's templates, and one token per decimal digit.                *)
Digits == {"0", "1", "2", "3", "4", "5", "6", "7", "8", "9"}
DigitOf(d) == CASE d = 0 -> "0" [] d = 1 -> "1" [] d = 2 -> "2" [] d = 3 -> "3"
                [] d = 4 -> "4" [] d = 5 -> "5" [] d = 6 -> "6" [] d = 7 -> "7"
                [] d = 8 -> "8" [] OTHER -> "9"

\* `${n}` for a number n >= 0
RECURSIVE Dec(_)
Dec(n) == IF n < 10 THEN <<DigitOf(n)>> ELSE Append(Dec(n \div 10), DigitOf(n % 10))

\* `pub-${p}`
PubClientId(p) == <<"pub-">> \o Dec(p)
\* `MSG from ${clientId} #${seq}`
Payload(p, s) == <<"MSG from ">> \o PubClientId(p) \o <<" #">> \o Dec(s)
\* The key without the separator between its two parts.
IndexKey_noSeparator(pubId, seqStr) == pubId \o seqStr

\* `${pubId}:${seq}`
IndexKey(pubId, seqStr) == pubId \o <<":">> \o seqStr

Whitespace == {" ", "\n"}
RECURSIVE TrimLeft(_)
TrimLeft(str) ==
    IF str # <<>> /\ Head(str) \in Whitespace THEN TrimLeft(Tail(str)) ELSE str
RECURSIVE TrimRight(_)
TrimRight(str) ==
    IF str # <<>> /\ str[Len(str)] \in Whitespace
    THEN TrimRight(SubSeq(str, 1, Len(str) - 1)) ELSE str
Trim(str) == TrimRight(TrimLeft(str))

AllDigits(str, from, to) == \A k \in from .. to : str[k] \in Digits

\* Where the first \d+ of the pattern stops: the first token from position 3
\* on that is no digit (Len + 1 if there is none).
RECURSIVE DigitsEnd(_, _)
DigitsEnd(str, k) ==
    IF k <= Len(str) /\ str[k] \in Digits THEN DigitsEnd(str, k + 1) ELSE k

\* payload.match(/^MSG from (pub-\d+) #(\d+)$/)
Match(payload) ==
    /\ Len(payload) >= 5
    /\ payload[1] = "MSG from "
    /\ payload[2] = "pub-"
    /\ LET j == DigitsEnd(payload, 3) IN
         /\ j >= 4
         /\ j < Len(payload)
         /\ payload[j] = " #"
         /\ AllDigits(payload, j + 1, Len(payload))
MatchPubId(payload) == SubSeq(payload, 2, DigitsEnd(payload, 3) - 1)
MatchSeq(payload) == SubSeq(payload, DigitsEnd(payload, 3) + 1, Len(payload))

ForeignPayloads == {<<"junk">>, <<"junk", "\n">>}

-----------------------------------------------------------------------------
(* Client objects and timers. *)
Original == 1
ReSub == 2
SubConn(i, k) == <<"sub", i, k>>
PubConn(p) == <<"pub", p, Original>>
ConnIds == {SubConn(i, k) : i \in SubIdx, k \in {Original, ReSub}}
           \cup {PubConn(p) : p \in PubIdx}
Identity(c) == <<c[1], c[2]>>
Identities == {Identity(c) : c \in ConnIds}

Main == <<"main", 0>>
LoopTimer(p) == <<"pub", p>>
ReconTimer(g) == <<"recon", g>>
ExpiryTimer(i) == <<"expiry", i>>
BackoffTimer(c) == <<IF c[1] = "sub" THEN "backoffSub" ELSE "backoffPub", c[2]>>
TimerIds == {Main}
            \cup {LoopTimer(p) : p \in PubIdx}
            \cup {ReconTimer(g) : g \in 0 .. (IF Inflight THEN 0 ELSE numGroups - 1)}
            \cup {ExpiryTimer(i) : i \in SubIdx}
            \cup {BackoffTimer(c) : c \in {d \in ConnIds : d[3] = Original}}

IsOpen(st) == st \notin {"none", "closed"}
Online(i) == \E k \in {Original, ReSub} :
                 conn[SubConn(i, k)] \in {"subscribing", "active", "closing"}

\* A network step that the environment completes before any timer expires.
PromptPending ==
    \/ \E c \in ConnIds : /\ conn[c] \in {"connecting", "subscribing", "closing"}
                          /\ c \notin stalled
    \/ \E i \in SubIdx : Online(i) /\ inflight[i] # {}

CanFire(t) ==
    /\ exitCode = Running
    /\ timers[t] # NoTimer
    /\ \A u \in TimerIds : timers[u] # NoTimer => timers[u] >= timers[t]
    /\ ~PromptPending

\* The timers after t has expired.
Elapse(t) ==
    [u \in TimerIds |->
        IF u = t \/ timers[u] = NoTimer THEN NoTimer ELSE timers[u] - timers[t]]

-----------------------------------------------------------------------------
QoSLevels == {0, 1, 2}
SessionExpiries == {2, DefaultSessionExpiry}

Args ==
    [subs : 0 .. MaxSubs, groups : 0 .. MaxGroups, subsPerGroup : 0 .. MaxSubs,
     publishers : 0 .. MaxPubs,
     messagesPerPub : 0 .. (IF MaxMsgs > MaxSharedMsgs THEN MaxMsgs ELSE MaxSharedMsgs),
     qos : QoSLevels, sessionExpiry : SessionExpiries, edgeDisconnect : BOOLEAN]

\* Options a script does not declare are left at one value.
ArgsOf(r) ==
    IF r = "inflight"
    THEN {a \in Args : /\ a.groups = 0 /\ a.subsPerGroup = 0 /\ ~a.edgeDisconnect
                        /\ a.messagesPerPub <= MaxMsgs}
    ELSE {a \in Args : /\ a.subs = 0
                        /\ a.sessionExpiry = DefaultSessionExpiry
                        /\ a.groups * a.subsPerGroup <= MaxSubs
                        /\ a.messagesPerPub <= MaxSharedMsgs}

\* The multi-publisher driver before it is started (and in the runs of the
\* two scenario runners, which do not use it).
DriverIdle == [started |-> FALSE]

\* mqttMultiSubTester and mqttMultiSubMain in the runs of the other scripts.
TesterIdle == [started |-> FALSE]
MainIdle == [started |-> FALSE]

\* The `clean` option of a subscriber's client: false in subOptions and in
\* the options of the reconnecting client.
CleanStart_reSub(c) == c[3] = ReSub

CleanStart(c) == FALSE

\* argv.topic, left at one value.
BaseTopic == <<"testtopic/test">>
\* `Group${g + 1}`
GroupName(g) == <<"Group">> \o Dec(g + 1)
\* `$share/${groupName}/${baseTopic}` of the subscribers' creation
ShareTopic(g) == <<"$share/">> \o GroupName(g) \o <<"/">> \o BaseTopic

\* The clientId of subscriber i: `sub-${i}`, or `${groupName}-${s}`.
SubClientId(i) ==
    IF Inflight THEN <<"sub-">> \o Dec(i)
    ELSE GroupName(GroupOf(i)) \o <<"-">> \o Dec(i % subsPerGroup)

SubConns == {c \in ConnIds : c[1] = "sub"}
NoRequest == [connect |-> <<>>, subscribe |-> <<>>]

\* subOptions of a subscriber's first client.
SubOptions(i) ==
    [clientId |-> SubClientId(i), clean |-> CleanStart(SubConn(i, Original)),
     sessionExpiryInterval |-> sessionExpiry]

\* The options of the client that the fault injection creates.
ReSubOptions(i) ==
    [clientId |-> SubClientId(i), clean |-> CleanStart(SubConn(i, ReSub)),
     sessionExpiryInterval |->
         IF Inflight THEN argv.sessionExpiry ELSE SharedReSubSessionExpiry]

\* subscribe() in the 'connect' handler of a subscriber's first client.
Subscribe(i) ==
    [filter |-> IF Inflight THEN BaseTopic ELSE ShareTopic(GroupOf(i)), qos |-> qos]

\* The reconnected client subscribing to the base topic in either mode.
ReSubscribe_base(i) == [filter |-> BaseTopic, qos |-> qos]

\* subscribe() in the 'connect' handler of the reconnected client.
ReSubscribe(i) ==
    [filter |-> IF Inflight THEN BaseTopic
                ELSE <<"$share/">> \o GroupName(GroupOf(i)) \o <<"/">> \o BaseTopic,
     qos |-> qos]

\* The session expiry that client c asked for in its CONNECT.
SessionExpiryOf(c) == subRequests[c].connect.sessionExpiryInterval

\* The broker refuses nobody, one identity, or everybody.
RejectChoices == {{}} \cup {{x} : x \in Identities} \cup {Identities}

Init ==
    /\ runner \in {"inflight", "shared"}
    /\ argv \in ArgsOf(runner)
    /\ rejects \in RejectChoices
    /\ pc = "start"
    /\ exitCode = Running
    /\ errors = {}
    /\ conn = [c \in ConnIds |-> "none"]
    /\ subscribers = <<>>
    /\ subReady = {}
    /\ receivedMap = <<>>
    /\ groupsReceivedMap = <<>>
    /\ publishedCount = 0
    /\ halfwayTriggered = FALSE
    /\ seq = [p \in PubIdx |-> 0]
    /\ loop = [p \in PubIdx |-> "idle"]
    /\ timers = [t \in TimerIds |-> NoTimer]
    /\ brokerSub = [i \in SubIdx |-> FALSE]
    /\ inflight = [i \in SubIdx |-> {}]
    /\ late = [i \in SubIdx |-> {}]
    /\ stalled = {}
    /\ faults = 0
    /\ foreign = 0
    /\ emitted = <<>>
    /\ gotSuback = {}
    /\ opened = 0
    /\ verdict = <<>>
    /\ overallPass = TRUE
    /\ csvRows = <<>>
    /\ injections = <<>>
    /\ arrivals = [i \in SubIdx |-> 0]
    /\ driver = DriverIdle
    /\ tester = TesterIdle
    /\ main = MainIdle
    /\ subRequests = [c \in SubConns |-> NoRequest]

-----------------------------------------------------------------------------
(* The barrier of lines 225-235: which received packet resolves a          *)
(* subscriber's promise.                                                   *)
ResolvesSubBarrier_connack(cmd) == cmd = "connack"

ResolvesSubBarrier(cmd) == cmd = "suback"

\* mqtt.connect for every subscriber, in the synchronous part before the
\* first await; a configuration violation exits before that.
Setup ==
    /\ pc = "start"
    /\ exitCode = Running
    /\ IF ConfigInvalid
       THEN /\ errors' = errors \cup {<<"config", 0>>}
            /\ exitCode' = 1
            /\ pc' = "exited"
            /\ UNCHANGED <<conn, subscribers, receivedMap, groupsReceivedMap, opened,
                           subRequests>>
       ELSE /\ receivedMap' = IF Inflight THEN [i \in SubIdx |-> {}] ELSE receivedMap
            /\ groupsReceivedMap' =
                   IF Shared THEN [g \in GroupIdx |-> <<>>] ELSE groupsReceivedMap
            /\ conn' = [c \in ConnIds |->
                           IF c[1] = "sub" /\ c[3] = Original THEN "connecting"
                           ELSE conn[c]]
            /\ subscribers' = [i \in SubIdx |-> Original]
            /\ subRequests' = [c \in SubConns |->
                                  IF c[3] = Original
                                  THEN [subRequests[c] EXCEPT !.connect = SubOptions(c[2])]
                                  ELSE subRequests[c]]
            /\ opened' = opened + NumSubscribers
            /\ pc' = "awaitSubacks"
            /\ UNCHANGED <<errors, exitCode>>
    /\ UNCHANGED <<tester, main, driver, injections, arrivals, runner, foreign, argv, rejects, subReady, publishedCount, halfwayTriggered,
                   seq, loop, timers, brokerSub, inflight, late, stalled, faults,
                   emitted, gotSuback, verdict, overallPass, csvRows>>

\* The promises of the barrier that a packet `cmd` on client c resolves.
Resolved(c, cmd) ==
    IF c[1] = "sub" /\ c[3] = Original /\ ResolvesSubBarrier(cmd)
    THEN subReady \cup {c[2]} ELSE subReady

\* The barrier as a race: it resumes with the first subscriber that is ready.
AfterSubBarrier_any(ready, tm) ==
    IF pc = "awaitSubacks" /\ ready # {}
    THEN /\ pc' = "settleSubs"
         /\ timers' = [tm EXCEPT ![Main] =
                          IF Inflight THEN SubSettleDelay ELSE SharedSettleDelay]
    ELSE /\ pc' = pc
         /\ timers' = tm

\* `await Promise.all(...)` of line 225 resumes and starts the 2 s timer.
AfterSubBarrier(ready, tm) ==
    IF pc = "awaitSubacks" /\ ready = SubIdx
    THEN /\ pc' = "settleSubs"
         /\ timers' = [tm EXCEPT ![Main] =
                          IF Inflight THEN SubSettleDelay ELSE SharedSettleDelay]
    ELSE /\ pc' = pc
         /\ timers' = tm

\* CONNACK on a subscriber client: its 'connect' handler subscribes.  The
\* broker resumes the identity's session if it has not expired, unless the
\* client asked for a clean start.
SubConnAck(c) ==
    /\ exitCode = Running
    /\ c[1] = "sub"
    /\ conn[c] = "connecting"
    /\ Identity(c) \notin rejects
    /\ conn' = [conn EXCEPT ![c] = "subscribing"]
    /\ subRequests' = [subRequests EXCEPT ![c].subscribe =
                           IF c[3] = ReSub THEN ReSubscribe(c[2]) ELSE Subscribe(c[2])]
    /\ stalled' = stalled \ {c}
    /\ subReady' = Resolved(c, "connack")
    /\ AfterSubBarrier(subReady', [timers EXCEPT ![ExpiryTimer(c[2])] = NoTimer])
    /\ brokerSub' = IF CleanStart(c) THEN [brokerSub EXCEPT ![c[2]] = FALSE]
                    ELSE brokerSub
    /\ inflight' = IF CleanStart(c) THEN [inflight EXCEPT ![c[2]] = {}] ELSE inflight
    /\ late' = IF CleanStart(c) THEN [late EXCEPT ![c[2]] = {}] ELSE late
    /\ UNCHANGED <<tester, main, driver, injections, arrivals, runner, foreign, argv, rejects, exitCode, errors, subscribers, receivedMap,
                   groupsReceivedMap, publishedCount, halfwayTriggered, seq, loop,
                   faults, emitted, gotSuback, opened, verdict, overallPass, csvRows>>

\* SUBACK on a subscriber client; the broker holds the subscription from now.
SubAck(c) ==
    /\ exitCode = Running
    /\ c[1] = "sub"
    /\ conn[c] = "subscribing"
    /\ conn' = [conn EXCEPT ![c] = "active"]
    /\ stalled' = stalled \ {c}
    /\ brokerSub' = [brokerSub EXCEPT ![c[2]] = TRUE]
    /\ gotSuback' = gotSuback \cup {c}
    /\ subReady' = Resolved(c, "suback")
    /\ AfterSubBarrier(subReady', timers)
    /\ UNCHANGED <<tester, main, subRequests, driver, injections, arrivals, runner, foreign, argv, rejects, exitCode, errors, subscribers, receivedMap,
                   groupsReceivedMap, publishedCount, halfwayTriggered, seq, loop,
                   inflight, late, faults, emitted, opened, verdict, overallPass,
                   csvRows>>

\* The broker refuses the connection: 'error' is logged and the client
\* library retries after reconnectPeriod.
ConnFail(c) ==
    /\ exitCode = Running
    /\ conn[c] = "connecting"
    /\ Identity(c) \in rejects
    /\ conn' = [conn EXCEPT ![c] = "backoff"]
    /\ stalled' = stalled \ {c}
    /\ errors' = errors \cup {Identity(c)}
    /\ timers' = [timers EXCEPT ![BackoffTimer(c)] =
                     IF c[1] = "sub" THEN SubReconnectPeriod ELSE PubReconnectPeriod]
    /\ UNCHANGED <<tester, main, subRequests, driver, injections, arrivals, runner, foreign, argv, rejects, pc, exitCode, subscribers, subReady,
                   receivedMap, groupsReceivedMap, publishedCount, halfwayTriggered,
                   seq, loop, brokerSub, inflight, late, faults, emitted, gotSuback,
                   opened, verdict, overallPass, csvRows>>

\* The client library's reconnect timer: 'reconnect' is logged, a new attempt.
Retry(c) ==
    /\ c[3] = Original
    /\ conn[c] = "backoff"
    /\ CanFire(BackoffTimer(c))
    /\ timers' = Elapse(BackoffTimer(c))
    /\ conn' = [conn EXCEPT ![c] = "connecting"]
    /\ UNCHANGED <<tester, main, subRequests, driver, injections, arrivals, runner, foreign, argv, rejects, pc, exitCode, errors, subscribers, subReady,
                   receivedMap, groupsReceivedMap, publishedCount, halfwayTriggered,
                   seq, loop, brokerSub, inflight, late, stalled, faults, emitted,
                   gotSuback, opened, verdict, overallPass, csvRows>>

-----------------------------------------------------------------------------
(* Publishers. *)

\* The 2 s timer after the SUBACK barrier: mqtt.connect for every publisher.
CreatePublishers ==
    /\ pc = "settleSubs"
    /\ CanFire(Main)
    /\ timers' = Elapse(Main)
    /\ conn' = [c \in ConnIds |-> IF c[1] = "pub" THEN "connecting" ELSE conn[c]]
    /\ opened' = opened + numPublishers
    /\ pc' = "awaitPubs"
    /\ UNCHANGED <<tester, main, subRequests, driver, injections, arrivals, runner, foreign, argv, rejects, exitCode, errors, subscribers, subReady,
                   receivedMap, groupsReceivedMap, publishedCount, halfwayTriggered,
                   seq, loop, brokerSub, inflight, late, stalled, faults, emitted,
                   gotSuback, verdict, overallPass, csvRows>>

\* A loop that steps over a sequence number.
NextSeq_skip(s) == s + 2

\* `seq++` of the publishing loops.
NextSeq(s) == s + 1

\* The broker routes a payload published on the plain topic: to every
\* identity whose session holds the subscription; an offline session keeps
\* it only at QoS 1 and 2.
RoutePlain(inf, payload) ==
    [i \in SubIdx |->
        IF brokerSub[i] /\ (Online(i) \/ qos >= 1)
        THEN inf[i] \cup {payload} ELSE inf[i]]

\* One pass through the body of a publisher's loop in runInflightTest, from
\* the loop test to the next await, on the record st of what it changes.
LoopBody(st, p, s) ==
    IF s > messagesPerPub
    THEN [st EXCEPT !.seq[p] = s, !.loop[p] = "done"]
    ELSE LET count == st.publishedCount + 1
             trigger == ~halfwayTriggered /\ count = halfwayCount
         IN [st EXCEPT
                !.seq[p] = s,
                !.inflight = RoutePlain(st.inflight, Payload(p, s)),
                !.emitted = Append(st.emitted, <<p, s>>),
                !.publishedCount = count,
                !.injections = IF trigger THEN Append(st.injections, count)
                               ELSE st.injections,
                !.loop[p] = IF trigger THEN "preWait" ELSE "pace",
                !.timers[LoopTimer(p)] =
                    IF trigger THEN PreDisconnectDelay ELSE PublishDelay]

LoopState(tm) ==
    [seq |-> seq, loop |-> loop, inflight |-> inflight, emitted |-> emitted,
     publishedCount |-> publishedCount, injections |-> injections, timers |-> tm]

\* publishers.map(...) starts every loop in turn, each up to its first await.
RECURSIVE StartLoops(_, _)
StartLoops(st, p) ==
    IF p >= numPublishers THEN st ELSE StartLoops(LoopBody(st, p, 1), p + 1)

\* `await Promise.all(publishPromises)` resumes once every loop has ended,
\* and the drain timer is started.
SetLoopState(st) ==
    LET allDone == \A q \in PubIdx : st.loop[q] = "done" IN
    /\ seq' = st.seq
    /\ loop' = st.loop
    /\ inflight' = st.inflight
    /\ emitted' = st.emitted
    /\ publishedCount' = st.publishedCount
    /\ injections' = st.injections
    /\ pc' = IF allDone THEN "drain" ELSE "publishing"
    /\ timers' = IF allDone
                 THEN [st.timers EXCEPT ![Main] =
                          IF Inflight THEN waitTime ELSE SharedDrainDelay]
                 ELSE st.timers

\* The 2 s timer after the publishers' barrier (runInflightTest).
StartPublishing ==
    /\ Inflight
    /\ pc = "settlePubs"
    /\ CanFire(Main)
    /\ SetLoopState(StartLoops(LoopState(Elapse(Main)), 0))
    /\ UNCHANGED <<tester, main, subRequests, driver, arrivals, runner, foreign, argv, rejects, exitCode, errors, conn, subscribers,
                   subReady, receivedMap, groupsReceivedMap, halfwayTriggered,
                   brokerSub, late, stalled, faults, gotSuback, opened, verdict,
                   overallPass, csvRows>>

\* The 200 ms timer of a publisher's loop: seq++ and the next pass.
Pace(p) ==
    /\ Inflight
    /\ pc = "publishing"
    /\ loop[p] = "pace"
    /\ CanFire(LoopTimer(p))
    /\ SetLoopState(LoopBody(LoopState(Elapse(LoopTimer(p))), p, NextSeq(seq[p])))
    /\ UNCHANGED <<tester, main, subRequests, driver, arrivals, runner, foreign, argv, rejects, exitCode, errors, conn, subscribers,
                   subReady, receivedMap, groupsReceivedMap, halfwayTriggered,
                   brokerSub, late, stalled, faults, gotSuback, opened, verdict,
                   overallPass, csvRows>>

\* An end() that leaves the client as it is.
EndClient_keep(st) == st

\* client.end(false, {}, cb): a graceful close of the client is started.
EndClient(st) == IF st \in {"none", "closing", "closed"} THEN st ELSE "closing"

\* The 1 s timer before the disconnect (runInflightTest): every subscriber's
\* client is ended, the reconnect is scheduled, and the loop waits 1 s more.
DisconnectAll(p) ==
    /\ Inflight
    /\ pc = "publishing"
    /\ loop[p] = "preWait"
    /\ CanFire(LoopTimer(p))
    /\ halfwayTriggered' = TRUE
    /\ conn' = [c \in ConnIds |->
                   IF c[1] = "sub" /\ c[3] = subscribers[c[2]]
                   THEN EndClient(conn[c]) ELSE conn[c]]
    /\ timers' = [Elapse(LoopTimer(p)) EXCEPT
                     ![ReconTimer(0)] = ReconnectDelay,
                     ![LoopTimer(p)] = PostDisconnectDelay]
    /\ loop' = [loop EXCEPT ![p] = "postWait"]
    /\ UNCHANGED <<tester, main, subRequests, driver, injections, arrivals, runner, foreign, argv, rejects, pc, exitCode, errors, subscribers,
                   subReady, receivedMap, groupsReceivedMap, publishedCount, seq,
                   brokerSub, inflight, late, stalled, faults, emitted, gotSuback,
                   opened, verdict, overallPass, csvRows>>

\* The 1 s timer after the disconnect: the loop goes on to its 200 ms delay.
AfterDisconnect(p) ==
    /\ Inflight
    /\ pc = "publishing"
    /\ loop[p] = "postWait"
    /\ CanFire(LoopTimer(p))
    /\ timers' = [Elapse(LoopTimer(p)) EXCEPT ![LoopTimer(p)] = PublishDelay]
    /\ loop' = [loop EXCEPT ![p] = "pace"]
    /\ UNCHANGED <<tester, main, subRequests, driver, injections, arrivals, runner, foreign, argv, rejects, pc, exitCode, errors, conn, subscribers,
                   subReady, receivedMap, groupsReceivedMap, publishedCount,
                   halfwayTriggered, seq, brokerSub, inflight, late, stalled,
                   faults, emitted, gotSuback, opened, verdict, overallPass,
                   csvRows>>

\* The 3 s timer of the fault injection (runInflightTest): a new client per
\* subscriber, with the same clientId, replaces subscribers[i].client.
ReconnectAll ==
    /\ Inflight
    /\ CanFire(ReconTimer(0))
    /\ timers' = Elapse(ReconTimer(0))
    /\ conn' = [c \in ConnIds |->
                   IF c[1] = "sub" /\ c[3] = ReSub THEN "connecting" ELSE conn[c]]
    /\ subscribers' = [i \in SubIdx |-> ReSub]
    /\ subRequests' = [c \in SubConns |->
                          IF c[3] = ReSub
                          THEN [subRequests[c] EXCEPT !.connect = ReSubOptions(c[2])]
                          ELSE subRequests[c]]
    /\ opened' = opened + NumSubscribers
    /\ UNCHANGED <<tester, main, driver, injections, arrivals, runner, foreign, argv, rejects, pc, exitCode, errors, subReady,
                   receivedMap, groupsReceivedMap, publishedCount, halfwayTriggered,
                   seq, loop, brokerSub, inflight, late, stalled, faults, emitted,
                   gotSuback, verdict, overallPass, csvRows>>

-----------------------------------------------------------------------------
(* runSharedSubscriptionTest: the publish loop runs in the main function.   *)

NoOne == 0 - 1
FirstOfGroup(g) == g * subsPerGroup

\* The members of a group the broker may hand a message to: one that is
\* connected, or else (QoS 1 and 2) one whose session is kept.
Candidates(g) ==
    LET on == {i \in Members(g) : brokerSub[i] /\ Online(i)} IN
    IF on # {} THEN on
    ELSE IF qos >= 1 THEN {i \in Members(g) : brokerSub[i]} ELSE {}

\* Each group gets the message once.
Routes ==
    {r \in [GroupIdx -> SubIdx \cup {NoOne}] :
        \A g \in GroupIdx :
            IF Candidates(g) = {} THEN r[g] = NoOne ELSE r[g] \in Candidates(g)}

RouteShared(inf, r, payload) ==
    [i \in SubIdx |-> IF r[GroupOf(i)] = i THEN inf[i] \cup {payload} ELSE inf[i]]

\* The position of the nested loops after the pass (p, s).
Position(p, s) ==
    IF s <= messagesPerPub THEN <<p, s>>
    ELSE IF p + 1 < numPublishers /\ messagesPerPub >= 1 THEN <<p + 1, 1>>
    ELSE <<numPublishers, 1>>

\* The nested loops of lines 294-366 from position pos to the next await (or
\* to the drain timer after the loops), starting from timers tm and clients cn.
SharedPass(tm, cn, pos) ==
    LET p == pos[1]
        s == pos[2]
    IN
    IF p >= numPublishers
    THEN /\ loop' = [q \in PubIdx |-> "done"]
         /\ pc' = "drain"
         /\ timers' = [tm EXCEPT ![Main] = SharedDrainDelay]
         /\ conn' = cn
         /\ UNCHANGED <<seq, inflight, emitted, publishedCount, halfwayTriggered,
                        injections>>
    ELSE LET count == publishedCount + 1
             trigger == edgeDisconnect /\ ~halfwayTriggered /\ count = halfwayCount
         IN
         /\ \E r \in Routes : inflight' = RouteShared(inflight, r, Payload(p, s))
         /\ emitted' = Append(emitted, <<p, s>>)
         /\ publishedCount' = count
         /\ halfwayTriggered' = (halfwayTriggered \/ trigger)
         /\ injections' = IF trigger THEN Append(injections, count) ELSE injections
         /\ conn' = [c \in ConnIds |->
                        IF /\ trigger
                           /\ c[1] = "sub"
                           /\ c[2] = FirstOfGroup(GroupOf(c[2]))
                           /\ c[3] = subscribers[c[2]]
                        THEN EndClient(cn[c]) ELSE cn[c]]
         /\ timers' = [t \in TimerIds |->
                          IF t = Main THEN SharedPublishDelay
                          ELSE IF trigger /\ t[1] = "recon" THEN SharedReconnectDelay
                          ELSE tm[t]]
         /\ seq' = [seq EXCEPT ![p] = s]
         /\ loop' = [q \in PubIdx |->
                        IF q < p THEN "done" ELSE IF q = p THEN "pace" ELSE "idle"]
         /\ pc' = "publishing"

\* CONNACK on a publisher client: its 'connect' event; the barrier of line
\* 265 (275) resumes the main function once every publisher is connected.
PubConnAck(c) ==
    /\ exitCode = Running
    /\ c[1] = "pub"
    /\ conn[c] = "connecting"
    /\ Identity(c) \notin rejects
    /\ stalled' = stalled \ {c}
    /\ LET cn == [conn EXCEPT ![c] = "connected"]
           all == \A q \in PubIdx : cn[PubConn(q)] = "connected"
       IN
       IF pc = "awaitPubs" /\ all /\ Shared
       THEN SharedPass(timers, cn, Position(0, 1))
       ELSE /\ conn' = cn
            /\ pc' = IF pc = "awaitPubs" /\ all THEN "settlePubs" ELSE pc
            /\ timers' = IF pc = "awaitPubs" /\ all
                         THEN [timers EXCEPT ![Main] = PubSettleDelay] ELSE timers
            /\ UNCHANGED <<seq, loop, inflight, emitted, publishedCount,
                           halfwayTriggered, injections>>
    /\ UNCHANGED <<tester, main, subRequests, driver, arrivals, runner, foreign, argv, rejects, exitCode, errors, subscribers, subReady,
                   receivedMap, groupsReceivedMap, brokerSub, late, faults,
                   gotSuback, opened, verdict, overallPass, csvRows>>

\* The 300 ms timer of the shared runner's loop.
SharedPace ==
    /\ Shared
    /\ pc = "publishing"
    /\ CanFire(Main)
    /\ \E p \in PubIdx :
          /\ loop[p] = "pace"
          /\ SharedPass(Elapse(Main), conn, Position(p, NextSeq(seq[p])))
    /\ UNCHANGED <<tester, main, subRequests, driver, arrivals, runner, foreign, argv, rejects, exitCode, errors, subscribers, subReady,
                   receivedMap, groupsReceivedMap, brokerSub, late, stalled, faults,
                   gotSuback, opened, verdict, overallPass, csvRows>>

\* The 5 s timer of the edge case: a new client with the clientId of the
\* group's disconnected subscriber replaces toDisc.client.
ReconnectOne(g) ==
    /\ Shared
    /\ CanFire(ReconTimer(g))
    /\ timers' = Elapse(ReconTimer(g))
    /\ conn' = [conn EXCEPT ![SubConn(FirstOfGroup(g), ReSub)] = "connecting"]
    /\ subscribers' = [subscribers EXCEPT ![FirstOfGroup(g)] = ReSub]
    /\ subRequests' = [subRequests EXCEPT
                           ![SubConn(FirstOfGroup(g), ReSub)].connect =
                               ReSubOptions(FirstOfGroup(g))]
    /\ opened' = opened + 1
    /\ UNCHANGED <<tester, main, driver, injections, arrivals, runner, foreign, argv, rejects, pc, exitCode, errors, subReady,
                   receivedMap, groupsReceivedMap, publishedCount, halfwayTriggered,
                   seq, loop, brokerSub, inflight, late, stalled, faults, emitted,
                   gotSuback, verdict, overallPass, csvRows>>

-----------------------------------------------------------------------------
(* Message arrival. *)

\* The handler with the payload stored as it came, whatever its form.
StoredKey_raw(raw) == Trim(raw)

\* The 'message' handler of runInflightTest (the original client's and the
\* reconnected client's are the same): the key the payload is stored under.
StoredKey(raw) ==
    LET payload == Trim(raw) IN
    IF Match(payload) THEN IndexKey(MatchPubId(payload), MatchSeq(payload))
    ELSE payload

\* The handler that starts the set anew with every arrival.
Record_replace(set, raw) == {StoredKey(raw)}

\* The handler that takes a key out of the set when it arrives again.
Record_toggle(set, raw) ==
    IF StoredKey(raw) \in set THEN set \ {StoredKey(raw)}
    ELSE set \cup {StoredKey(raw)}

\* The handler that keeps only the payloads of the expected form.
Record_matchingOnly(set, raw) ==
    IF Match(Trim(raw)) THEN set \cup {StoredKey(raw)} ELSE set

\* What the handler does to the subscriber's received set: set.add on either
\* branch.
Record(set, raw) == set \cup {StoredKey(raw)}

\* The handler that lists a receiver under the position of its client in
\* allSubscribers counted from one.
Push_position(recvMap, raw, clientId) ==
    LET payload == Trim(raw) IN
    IF payload \in DOMAIN recvMap
    THEN [recvMap EXCEPT ![payload] = Append(@, clientId + 1)]
    ELSE recvMap @@ (payload :> <<clientId + 1>>)

\* The handler that lists a receiver once per payload.
Push_once(recvMap, raw, clientId) ==
    LET payload == Trim(raw) IN
    IF payload \in DOMAIN recvMap
    THEN IF \E k \in DOMAIN recvMap[payload] : recvMap[payload][k] = clientId
         THEN recvMap
         ELSE [recvMap EXCEPT ![payload] = Append(@, clientId)]
    ELSE recvMap @@ (payload :> <<clientId>>)

\* The 'message' handler of runSharedSubscriptionTest.
Push(recvMap, raw, clientId) ==
    LET payload == Trim(raw) IN
    IF payload \in DOMAIN recvMap
    THEN [recvMap EXCEPT ![payload] = Append(@, clientId)]
    ELSE recvMap @@ (payload :> <<clientId>>)

\* A message owed to identity i arrives on a client of that identity.
Deliver(i, m) ==
    /\ exitCode = Running
    /\ Online(i)
    /\ m \in inflight[i] \cup late[i]
    /\ IF m \in inflight[i]
       THEN inflight' = [inflight EXCEPT ![i] = @ \ {m}] /\ late' = late
       ELSE late' = [late EXCEPT ![i] = @ \ {m}] /\ inflight' = inflight
    /\ IF Inflight
       THEN /\ receivedMap' = [receivedMap EXCEPT ![i] = Record(@, m)]
            /\ groupsReceivedMap' = groupsReceivedMap
       ELSE /\ groupsReceivedMap' =
                   [groupsReceivedMap EXCEPT ![GroupOf(i)] = Push(@, m, i)]
            /\ receivedMap' = receivedMap
    /\ arrivals' = [arrivals EXCEPT ![i] = @ + 1]
    /\ UNCHANGED <<tester, main, subRequests, driver, injections, runner, foreign, argv, rejects, pc, exitCode, errors, conn, subscribers,
                   subReady, publishedCount, halfwayTriggered, seq, loop, timers,
                   brokerSub, stalled, faults, emitted, gotSuback, opened, verdict,
                   overallPass, csvRows>>

-----------------------------------------------------------------------------
(* Closing of clients, teardown, and the broker's session expiry. *)

OnlineIn(cn, i) == \E k \in {Original, ReSub} :
                       cn[SubConn(i, k)] \in {"subscribing", "active", "closing"}

\* The exit code taken from the outcome of the verification.
FinalExitCode_byVerdict(ok) == IF ok THEN 0 ELSE 1

\* process.exit(0) in the callback of logStream.end (lines 490-493),
\* whatever overallPass is.
FinalExitCode(ok) == 0

\* A client finishes closing and the callback of its end() runs.  The
\* teardown (lines 468-493) goes on when the last awaited callback has run.
Closed(c) ==
    /\ exitCode = Running
    /\ conn[c] = "closing"
    /\ stalled' = stalled \ {c}
    /\ LET cn == [conn EXCEPT ![c] = "closed"]
           subsClosed == \A i \in SubIdx : cn[SubConn(i, subscribers[i])] = "closed"
           pubsClosed == \A q \in PubIdx : cn[PubConn(q)] = "closed"
           offline == c[1] = "sub" /\ ~OnlineIn(cn, c[2])
       IN
       /\ IF pc = "closingSubs" /\ subsClosed
          THEN /\ conn' = [d \in ConnIds |->
                              IF d[1] = "pub" THEN EndClient(cn[d]) ELSE cn[d]]
               /\ pc' = "closingPubs"
               /\ exitCode' = exitCode
          ELSE IF pc = "closingPubs" /\ pubsClosed
          THEN /\ conn' = cn
               /\ pc' = "exited"
               /\ exitCode' = FinalExitCode(overallPass)
          ELSE /\ conn' = cn
               /\ UNCHANGED <<pc, exitCode>>
       /\ timers' = IF offline /\ brokerSub[c[2]]
                    THEN [timers EXCEPT ![ExpiryTimer(c[2])] =
                             SessionExpiryOf(c) * TicksPerSecond]
                    ELSE timers
       /\ inflight' = IF offline /\ qos = 0
                      THEN [inflight EXCEPT ![c[2]] = {}] ELSE inflight
       /\ late' = IF offline /\ qos = 0 THEN [late EXCEPT ![c[2]] = {}] ELSE late
    /\ UNCHANGED <<tester, main, subRequests, driver, injections, arrivals, runner, foreign, argv, rejects, errors, subscribers, subReady,
                   receivedMap, groupsReceivedMap, publishedCount, halfwayTriggered,
                   seq, loop, brokerSub, faults, emitted, gotSuback, opened,
                   verdict, overallPass, csvRows>>

\* The session of an identity that stayed offline for sessionExpiry seconds
\* is discarded by the broker, with its subscription and its queue.
Expire(i) ==
    /\ CanFire(ExpiryTimer(i))
    /\ timers' = Elapse(ExpiryTimer(i))
    /\ brokerSub' = [brokerSub EXCEPT ![i] = FALSE]
    /\ inflight' = [inflight EXCEPT ![i] = {}]
    /\ late' = [late EXCEPT ![i] = {}]
    /\ UNCHANGED <<tester, main, subRequests, driver, injections, arrivals, runner, foreign, argv, rejects, pc, exitCode, errors, conn, subscribers,
                   subReady, receivedMap, groupsReceivedMap, publishedCount,
                   halfwayTriggered, seq, loop, stalled, faults, emitted, gotSuback,
                   opened, verdict, overallPass, csvRows>>

-----------------------------------------------------------------------------
(* Verification. *)

SeqNumbers == [s \in 1 .. messagesPerPub |-> s]

\* runInflightTest, lines 403-415
missingByPublisher(i, p) ==
    SelectSeq(SeqNumbers,
              LAMBDA s : IndexKey(PubClientId(p), Dec(s)) \notin receivedMap[i])
\* The verdict that passes a subscriber that has received anything.
pass_anyReceived(i) == receivedMap[i] # {}

\* The verdict taken from the first publisher's missing list alone.
pass_firstPublisher(i) == Len(missingByPublisher(i, 0)) = 0

pass(i) == \A p \in PubIdx : Len(missingByPublisher(i, p)) = 0

\* The rows with every status taken from the first subscriber's set.
InflightRows_firstSubscriber ==
    [k \in 1 .. (NumSubscribers * totalMessages) |->
        LET i == (k - 1) \div totalMessages
            p == ((k - 1) % totalMessages) \div messagesPerPub
            s == ((k - 1) % messagesPerPub) + 1
        IN [subscriber |-> i, publisher |-> p, index |-> s,
            status |-> IF IndexKey(PubClientId(p), Dec(s)) \in receivedMap[0]
                       THEN "Pass" ELSE "Fail"]]

\* runInflightTest, lines 433-445: the rows in the order they are pushed
InflightRows ==
    [k \in 1 .. (NumSubscribers * totalMessages) |->
        LET i == (k - 1) \div totalMessages
            p == ((k - 1) % totalMessages) \div messagesPerPub
            s == ((k - 1) % messagesPerPub) + 1
        IN [subscriber |-> i, publisher |-> p, index |-> s,
            status |-> IF IndexKey(PubClientId(p), Dec(s)) \in receivedMap[i]
                       THEN "Pass" ELSE "Fail"]]

\* The universe with the sequence numbers counted from 0.
Expected_fromZero ==
    [k \in 1 .. totalMessages |->
        Payload((k - 1) \div messagesPerPub, (k - 1) % messagesPerPub)]

\* runSharedSubscriptionTest, lines 390-413
Expected == [k \in 1 .. totalMessages |->
                Payload((k - 1) \div messagesPerPub, ((k - 1) % messagesPerPub) + 1)]
missingIn(recvMap) == SelectSeq(Expected, LAMBDA e : e \notin DOMAIN recvMap)
missingPayloads(g) == missingIn(groupsReceivedMap[g])
\* The verdict taken from the missing list alone.
groupPass_missingOnly(g) == Len(missingPayloads(g)) = 0

\* groupPass as lines 388-413 compute it from one group's map.
groupPassOf(recvMap) ==
    /\ Len(missingIn(recvMap)) = 0
    /\ \A payload \in DOMAIN recvMap : Len(recvMap[payload]) = 1

groupPass(g) == groupPassOf(groupsReceivedMap[g])

\* runSharedSubscriptionTest, lines 404-413: the payloads reported as
\* duplicate deliveries.
duplicates(g) ==
    {payload \in DOMAIN groupsReceivedMap[g] : Len(groupsReceivedMap[g][payload]) > 1}

\* The sum of f[x] over the x of S.
RECURSIVE SumOver(_, _)
SumOver(f, S) ==
    IF S = {} THEN 0
    ELSE LET x == CHOOSE y \in S : TRUE IN f[x] + SumOver(f, S \ {x})

\* runSharedSubscriptionTest, lines 463-492: the per-subscriber tally of the
\* entries of a group's receiver lists, counted for the client ids of the
\* group's subscribers only, and its total.
subCount(g) ==
    LET recvMap == groupsReceivedMap[g] IN
    [subId \in Members(g) |->
        SumOver([payload \in DOMAIN recvMap |->
                    Cardinality({k \in DOMAIN recvMap[payload] :
                                    recvMap[payload][k] = subId})],
                DOMAIN recvMap)]
total(g) == SumOver(subCount(g), Members(g))

\* runSharedSubscriptionTest, lines 438-453
SharedRows ==
    [k \in 1 .. (numGroups * totalMessages) |->
        LET g == (k - 1) \div totalMessages
            p == ((k - 1) % totalMessages) \div messagesPerPub
            s == ((k - 1) % messagesPerPub) + 1
            receivedByArr == IF Payload(p, s) \in DOMAIN groupsReceivedMap[g]
                             THEN groupsReceivedMap[g][Payload(p, s)] ELSE <<>>
        IN [group |-> g, publisher |-> p, sequence |-> s,
            receivedBy |-> receivedByArr,
            status |-> IF Len(receivedByArr) = 1 THEN "Pass" ELSE "Fail"]]

\* The run has passed its verification.
Verified == pc \in {"closingSubs", "closingPubs"} \/ (pc = "exited" /\ exitCode = 0)

\* The drain timer: verification, the CSV report, and the start of the
\* teardown (end() on every subscribers[i].client), all in one turn.
Verify ==
    /\ pc = "drain"
    /\ CanFire(Main)
    /\ timers' = Elapse(Main)
    /\ verdict' = IF Inflight
                  THEN [i \in SubIdx |-> IF pass(i) THEN "PASS" ELSE "FAIL"]
                  ELSE [g \in GroupIdx |-> IF groupPass(g) THEN "PASS" ELSE "FAIL"]
    /\ overallPass' = IF Inflight THEN \A i \in SubIdx : pass(i)
                      ELSE \A g \in GroupIdx : groupPass(g)
    /\ csvRows' = IF Inflight THEN InflightRows ELSE SharedRows
    /\ conn' = [c \in ConnIds |->
                   IF c[1] = "sub" /\ c[3] = subscribers[c[2]]
                   THEN EndClient(conn[c]) ELSE conn[c]]
    /\ pc' = "closingSubs"
    /\ UNCHANGED <<tester, main, subRequests, driver, injections, arrivals, runner, foreign, argv, rejects, exitCode, errors, subscribers, subReady,
                   receivedMap, groupsReceivedMap, publishedCount, halfwayTriggered,
                   seq, loop, brokerSub, inflight, late, stalled, faults, emitted,
                   gotSuback, opened>>

-----------------------------------------------------------------------------
(* Irregularities of the environment.  A run has at most MaxFaults network  *)
(* faults or at most MaxForeign foreign messages, not both.                 *)

\* A network step of a client (CONNACK, SUBACK, close) is delayed.
StallConn(c) ==
    /\ exitCode = Running
    /\ faults < MaxFaults
    /\ foreign = 0
    /\ conn[c] \in {"connecting", "subscribing", "closing"}
    /\ c \notin stalled
    /\ Identity(c) \notin rejects
    /\ stalled' = stalled \cup {c}
    /\ faults' = faults + 1
    /\ UNCHANGED <<tester, main, subRequests, driver, injections, arrivals, runner, foreign, argv, rejects, pc, exitCode, errors, conn, subscribers,
                   subReady, receivedMap, groupsReceivedMap, publishedCount,
                   halfwayTriggered, seq, loop, timers, brokerSub, inflight, late,
                   emitted, gotSuback, opened, verdict, overallPass, csvRows>>

\* A message is delayed (it may arrive late, or never).
StallMsg(i, m) ==
    /\ exitCode = Running
    /\ faults < MaxFaults
    /\ foreign = 0
    /\ m \in inflight[i]
    /\ inflight' = [inflight EXCEPT ![i] = @ \ {m}]
    /\ late' = [late EXCEPT ![i] = @ \cup {m}]
    /\ faults' = faults + 1
    /\ UNCHANGED <<tester, main, subRequests, driver, injections, arrivals, runner, foreign, argv, rejects, pc, exitCode, errors, conn, subscribers,
                   subReady, receivedMap, groupsReceivedMap, publishedCount,
                   halfwayTriggered, seq, loop, timers, brokerSub, stalled,
                   emitted, gotSuback, opened, verdict, overallPass, csvRows>>

\* The broker sends a message a second time: to the same identity, or (shared
\* subscription) to another member of the group.
Duplicate(i, j, m) ==
    /\ exitCode = Running
    /\ faults < MaxFaults
    /\ foreign = 0
    /\ m \in inflight[i]
    /\ IF Inflight THEN j = i ELSE GroupOf(j) = GroupOf(i)
    /\ brokerSub[j]
    /\ m \notin late[j]
    /\ late' = [late EXCEPT ![j] = @ \cup {m}]
    /\ faults' = faults + 1
    /\ UNCHANGED <<tester, main, subRequests, driver, injections, arrivals, runner, foreign, argv, rejects, pc, exitCode, errors, conn, subscribers,
                   subReady, receivedMap, groupsReceivedMap, publishedCount,
                   halfwayTriggered, seq, loop, timers, brokerSub, inflight,
                   stalled, emitted, gotSuback, opened, verdict, overallPass,
                   csvRows>>

\* A publish fails: the payload reaches nobody, and the callback given to
\* publish (lines 289-295) logs the error.  The loop is not told.
PublishError(p, s) ==
    /\ exitCode = Running
    /\ faults < MaxFaults
    /\ foreign = 0
    /\ \E i \in SubIdx : Payload(p, s) \in inflight[i]
    /\ inflight' = [i \in SubIdx |-> inflight[i] \ {Payload(p, s)}]
    /\ errors' = errors \cup {<<"publish", p>>}
    /\ faults' = faults + 1
    /\ UNCHANGED <<tester, main, subRequests, driver, injections, arrivals, runner, argv, rejects, pc, exitCode,
                   conn, subscribers, subReady, receivedMap, groupsReceivedMap,
                   publishedCount, halfwayTriggered, seq, loop, timers, brokerSub,
                   late, stalled, foreign, emitted, gotSuback, opened, verdict,
                   overallPass, csvRows>>

\* Another client of the broker publishes a payload of its own on the topic.
\* Such traffic is taken to arrive during the drain window: what a handler
\* does with a payload does not depend on when it arrives.
Foreign(f) ==
    /\ exitCode = Running
    /\ pc = "drain"
    /\ foreign < MaxForeign
    /\ faults = 0
    /\ IF Inflight THEN inflight' = RoutePlain(inflight, f)
       ELSE \E r \in Routes : inflight' = RouteShared(inflight, r, f)
    /\ foreign' = foreign + 1
    /\ UNCHANGED <<tester, main, subRequests, driver, injections, arrivals, runner, argv, rejects, pc, exitCode, errors, conn, subscribers,
                   subReady, receivedMap, groupsReceivedMap, publishedCount,
                   halfwayTriggered, seq, loop, timers, brokerSub, late, stalled,
                   faults, emitted, gotSuback, opened, verdict, overallPass, csvRows>>

\* The drain timer's turn with an error thrown by the harness: the verdicts
\* are computed and printed, fs.writeFileSync throws (line 461), and the
\* catch block (lines 494-502) logs the error and exits with code 1.
ReportFails ==
    /\ pc = "drain"
    /\ CanFire(Main)
    /\ faults < MaxFaults
    /\ foreign = 0
    /\ timers' = Elapse(Main)
    /\ verdict' = IF Inflight
                  THEN [i \in SubIdx |-> IF pass(i) THEN "PASS" ELSE "FAIL"]
                  ELSE [g \in GroupIdx |-> IF groupPass(g) THEN "PASS" ELSE "FAIL"]
    /\ overallPass' = IF Inflight THEN \A i \in SubIdx : pass(i)
                      ELSE \A g \in GroupIdx : groupPass(g)
    /\ csvRows' = IF Inflight THEN InflightRows ELSE SharedRows
    /\ errors' = errors \cup {<<"thrown", 0>>}
    /\ faults' = faults + 1
    /\ pc' = "exited"
    /\ exitCode' = 1
    /\ UNCHANGED <<tester, main, subRequests, driver, injections, arrivals, runner, foreign, argv, rejects, conn,
                   subscribers, subReady, receivedMap, groupsReceivedMap,
                   publishedCount, halfwayTriggered, seq, loop, brokerSub, inflight,
                   late, stalled, emitted, gotSuback, opened>>

-----------------------------------------------------------------------------
Harness ==
    \/ Setup
    \/ CreatePublishers
    \/ StartPublishing
    \/ \E p \in PubIdx : Pace(p)
    \/ \E p \in PubIdx : DisconnectAll(p)
    \/ \E p \in PubIdx : AfterDisconnect(p)
    \/ ReconnectAll
    \/ SharedPace
    \/ \E g \in GroupIdx : ReconnectOne(g)
    \/ Verify

Network ==
    \/ \E c \in ConnIds : SubConnAck(c)
    \/ \E c \in ConnIds : SubAck(c)
    \/ \E c \in ConnIds : PubConnAck(c)
    \/ \E c \in ConnIds : ConnFail(c)
    \/ \E c \in ConnIds : Retry(c)
    \/ \E i \in SubIdx : \E m \in inflight[i] \cup late[i] : Deliver(i, m)
    \/ \E c \in ConnIds : Closed(c)
    \/ \E i \in SubIdx : Expire(i)

Irregular ==
    \/ \E c \in ConnIds : StallConn(c)
    \/ \E i \in SubIdx : \E m \in inflight[i] : StallMsg(i, m)
    \/ \E i, j \in SubIdx : \E m \in inflight[i] : Duplicate(i, j, m)
    \/ \E f \in ForeignPayloads : Foreign(f)
    \/ \E p \in PubIdx : \E s \in 1 .. messagesPerPub : PublishError(p, s)
    \/ ReportFails

Next == Harness \/ Network \/ Irregular

Spec == Init /\ [][Next]_vars

\* The event loop runs every callback that is due, and the environment
\* completes every network step that is not delayed.
Regular == Harness \/ Network
FairSpec == Init /\ [][Regular]_vars /\ WF_vars(Regular)

-----------------------------------------------------------------------------
(* The multi-publisher drivers (src/unnamed/part_000 and part_001): every   *)
(* publisher is a client with a chain of timers, each of which publishes    *)
(* the next message; a periodic statistics printer detects completion.      *)
(* The delays are random, so pending timers expire in any order.            *)

MaxDriverPubs == 2
MaxDriverMsgs == 3
MaxDrops == 1
MaxPublishFailures == 1

Drivers == {"part_000", "part_001"}
numberMessages == argv.numberMessages
publisherCount == argv.publisherCount
DriverPubs == 0 .. (publisherCount - 1)

\* The variables of the scenario runners, which the drivers do not have.
scenarioVars ==
    <<rejects, conn, subscribers, subReady, receivedMap, groupsReceivedMap,
      publishedCount, halfwayTriggered, seq, loop, timers, brokerSub, inflight,
      late, stalled, faults, foreign, emitted, gotSuback, opened, verdict,
      overallPass, csvRows, injections, arrivals, subRequests>>

\* startPublisher: the closure of one publisher and its client.
NewPublisher ==
    [conn |-> "connecting", nextMsg |-> 1, publishedCount |-> 0, ackedCount |-> 0,
     failedCount |-> 0, timers |-> 0, endTimers |-> 0, pending |-> <<>>,
     sent |-> <<>>, lastDone |-> <<0, "none">>]

DriverInit ==
    /\ runner \in Drivers
    /\ argv \in [numberMessages : 0 .. MaxDriverMsgs, publisherCount : 1 .. MaxDriverPubs]
    /\ pc = "start"
    /\ exitCode = Running
    /\ errors = {}
    /\ driver = DriverIdle
    /\ tester = TesterIdle
    /\ main = MainIdle
    /\ subRequests = <<>>
    /\ rejects = {}
    /\ conn = <<>>
    /\ subscribers = <<>>
    /\ subReady = {}
    /\ receivedMap = <<>>
    /\ groupsReceivedMap = <<>>
    /\ publishedCount = 0
    /\ halfwayTriggered = FALSE
    /\ seq = <<>>
    /\ loop = <<>>
    /\ timers = <<>>
    /\ brokerSub = <<>>
    /\ inflight = <<>>
    /\ late = <<>>
    /\ stalled = {}
    /\ faults = 0
    /\ foreign = 0
    /\ emitted = <<>>
    /\ gotSuback = {}
    /\ opened = 0
    /\ verdict = <<>>
    /\ overallPass = TRUE
    /\ csvRows = <<>>
    /\ injections = <<>>
    /\ arrivals = <<>>

\* The top level of the script: the global counters, every publisher
\* started, and the statistics interval armed.
StartDriver ==
    /\ pc = "start"
    /\ exitCode = Running
    /\ driver' = [started |-> TRUE,
                  pubs |-> [p \in DriverPubs |-> NewPublisher],
                  totalPublished |-> 0, totalAcked |-> 0, totalFailed |-> 0,
                  statsArmed |-> TRUE, tick |-> FALSE, completed |-> FALSE,
                  drops |-> 0]
    /\ pc' = "running"
    /\ UNCHANGED <<runner, argv, exitCode, errors, scenarioVars, tester, main>>

\* scheduleNext up to the setTimeout: part_000 returns at the quota,
\* part_001 arms the 5 s timer that ends the client.
ScheduleNext(pub) ==
    IF pub.nextMsg > numberMessages
    THEN IF runner = "part_001" THEN [pub EXCEPT !.endTimers = @ + 1] ELSE pub
    ELSE [pub EXCEPT !.timers = @ + 1]

\* 'connect' on a publisher's client, first or after a loss of connection.
DriverConnect(p) ==
    /\ exitCode = Running
    /\ pc = "running"
    /\ driver.pubs[p].conn \in {"connecting", "offline"}
    /\ driver' = [driver EXCEPT
                     !.pubs[p] = ScheduleNext([@ EXCEPT !.conn = "connected"])]
    /\ UNCHANGED <<runner, argv, pc, exitCode, errors, scenarioVars, tester, main>>

\* The connection of a publisher is lost; the client will reconnect
\* (reconnectPeriod: 1000).
DriverLose(p) ==
    /\ exitCode = Running
    /\ pc = "running"
    /\ driver.pubs[p].conn = "connected"
    /\ driver.drops < MaxDrops
    /\ driver' = [driver EXCEPT !.pubs[p].conn = "offline", !.drops = @ + 1]
    /\ UNCHANGED <<runner, argv, pc, exitCode, errors, scenarioVars, tester, main>>

\* The callback of the setTimeout in scheduleNext.
DriverFire(p) ==
    /\ exitCode = Running
    /\ pc = "running"
    /\ driver.pubs[p].timers > 0
    /\ LET pub == [driver.pubs[p] EXCEPT !.timers = @ - 1] IN
       driver' = [driver EXCEPT !.pubs[p] =
                     IF pub.conn # "connected" THEN ScheduleNext(pub)
                     ELSE [pub EXCEPT !.sent = Append(@, pub.nextMsg),
                                      !.pending = Append(@, pub.nextMsg)]]
    /\ UNCHANGED <<runner, argv, pc, exitCode, errors, scenarioVars, tester, main>>

\* The callback that counts an attempt only when it is acknowledged.
Counted_ackedOnly(old, err) ==
    [old EXCEPT
        !.pending = Tail(@),
        !.failedCount = IF err THEN @ + 1 ELSE @,
        !.ackedCount = IF err THEN @ ELSE @ + 1,
        !.publishedCount = IF err THEN @ ELSE @ + 1,
        !.nextMsg = @ + 1,
        !.lastDone = <<Head(old.pending), IF err THEN "failed" ELSE "acked">>]

\* The counters of the publisher's closure after the callback of a publish.
Counted(old, err) ==
    [old EXCEPT
        !.pending = Tail(@),
        !.failedCount = IF err THEN @ + 1 ELSE @,
        !.ackedCount = IF err THEN @ ELSE @ + 1,
        !.publishedCount = @ + 1,
        !.nextMsg = @ + 1,
        !.lastDone = <<Head(old.pending), IF err THEN "failed" ELSE "acked">>]

\* The callback of client.publish, with or without an error.
DriverCallback(p, err) ==
    /\ exitCode = Running
    /\ pc = "running"
    /\ driver.pubs[p].pending # <<>>
    /\ err => driver.totalFailed < MaxPublishFailures
    /\ LET pub == Counted(driver.pubs[p], err)
       IN driver' = [driver EXCEPT
                        !.pubs[p] = IF runner = "part_000" /\ pub.nextMsg > numberMessages
                                    THEN pub
                                    ELSE ScheduleNext(pub),
                        !.totalFailed = IF err THEN @ + 1 ELSE @,
                        !.totalAcked = IF err THEN @ ELSE @ + 1,
                        !.totalPublished = @ + 1]
    /\ errors' = IF err THEN errors \cup {<<"publish", p>>} ELSE errors
    /\ UNCHANGED <<runner, argv, pc, exitCode, scenarioVars, tester, main>>

\* The 5 s timer of part_001: client.end().
DriverEnd(p) ==
    /\ exitCode = Running
    /\ pc = "running"
    /\ driver.pubs[p].endTimers > 0
    /\ driver' = [driver EXCEPT !.pubs[p].endTimers = @ - 1,
                                !.pubs[p].conn = "ended"]
    /\ UNCHANGED <<runner, argv, pc, exitCode, errors, scenarioVars, tester, main>>

\* The completion test of the statistics printer.
AllDone == driver.totalAcked >= numberMessages * publisherCount

\* The callback of the statistics interval.
DriverStats ==
    /\ exitCode = Running
    /\ pc = "running"
    /\ driver.statsArmed
    /\ driver' = [driver EXCEPT !.tick = ~@,
                                !.completed = AllDone,
                                !.statsArmed = ~AllDone]
    /\ IF AllDone /\ runner = "part_000"
       THEN pc' = "exited" /\ exitCode' = 0
       ELSE UNCHANGED <<pc, exitCode>>
    /\ UNCHANGED <<runner, argv, errors, scenarioVars, tester, main>>

DriverRegular ==
    \/ StartDriver
    \/ \E p \in DriverPubs : DriverConnect(p)
    \/ \E p \in DriverPubs : DriverFire(p)
    \/ \E p \in DriverPubs : DriverCallback(p, FALSE)
    \/ \E p \in DriverPubs : DriverEnd(p)
    \/ DriverStats

DriverIrregular ==
    \/ \E p \in DriverPubs : DriverLose(p)
    \/ \E p \in DriverPubs : DriverCallback(p, TRUE)

DriverNext == DriverRegular \/ DriverIrregular

DriverSpec == DriverInit /\ [][DriverNext]_vars

\* Every timer that is due expires, every callback runs, every client that
\* lost its connection reconnects; failures are the environment's choice.
FairDriverSpec == DriverInit /\ [][DriverNext]_vars /\ WF_vars(DriverRegular)

-----------------------------------------------------------------------------
(* The 'message' handler of runInflightTest on identities of more than one  *)
(* digit: a run of MaxHandlerPubs publishers with MaxHandlerMsgs messages   *)
(* each, in the drain window, where the reconnected client of the one       *)
(* subscriber has received every message but one or two that are still on   *)
(* their way.                                                               *)

MaxHandlerPubs == 12
MaxHandlerMsgs == 12

HandlerArgs ==
    [subs |-> 1, groups |-> 0, subsPerGroup |-> 0, publishers |-> MaxHandlerPubs,
     messagesPerPub |-> MaxHandlerMsgs, qos |-> 1, edgeDisconnect |-> FALSE,
     sessionExpiry |-> DefaultSessionExpiry]

AllPayloads == {Payload(p, s) : p \in PubIdx, s \in 1 .. messagesPerPub}

HandlerInit ==
    /\ runner = "inflight"
    /\ argv = HandlerArgs
    /\ rejects = {}
    /\ pc = "drain"
    /\ exitCode = Running
    /\ errors = {}
    /\ conn = [c \in ConnIds |->
                  IF c[1] = "pub" THEN "connected"
                  ELSE IF c[3] = ReSub THEN "active" ELSE "closed"]
    /\ subscribers = [i \in SubIdx |-> ReSub]
    /\ subReady = SubIdx
    /\ \E a, b \in AllPayloads :
          /\ inflight = [i \in SubIdx |-> {a, b}]
          /\ receivedMap = [i \in SubIdx |-> {StoredKey(m) : m \in AllPayloads \ {a, b}}]
          /\ arrivals = [i \in SubIdx |-> totalMessages - Cardinality({a, b})]
    /\ groupsReceivedMap = <<>>
    /\ publishedCount = totalMessages
    /\ halfwayTriggered = TRUE
    /\ seq = [p \in PubIdx |-> messagesPerPub + 1]
    /\ loop = [p \in PubIdx |-> "done"]
    /\ timers = [t \in TimerIds |-> IF t = Main THEN waitTime ELSE NoTimer]
    /\ brokerSub = [i \in SubIdx |-> TRUE]
    /\ late = [i \in SubIdx |-> {}]
    /\ stalled = {}
    /\ faults = 0
    /\ foreign = 0
    /\ emitted = [k \in 1 .. totalMessages |->
                     <<(k - 1) % numPublishers, ((k - 1) \div numPublishers) + 1>>]
    /\ gotSuback = {c \in ConnIds : c[1] = "sub"}
    /\ opened = 2 * NumSubscribers + numPublishers
    /\ verdict = <<>>
    /\ overallPass = TRUE
    /\ csvRows = <<>>
    /\ injections = <<halfwayCount>>
    /\ driver = DriverIdle
    /\ tester = TesterIdle
    /\ main = MainIdle
    /\ subRequests = [c \in SubConns |->
                         [connect |-> IF c[3] = ReSub THEN ReSubOptions(c[2])
                                      ELSE SubOptions(c[2]),
                          subscribe |-> IF c[3] = ReSub THEN ReSubscribe(c[2])
                                        ELSE Subscribe(c[2])]]

HandlerNext == \E i \in SubIdx : \E m \in inflight[i] : Deliver(i, m)

HandlerSpec == HandlerInit /\ [][HandlerNext]_vars

-----------------------------------------------------------------------------
(* The 'message' handler and the verification of runInflightTest on the    *)
(* payloads any client may publish on the topic: the drain window of a run *)
(* of one subscriber, whose deliveries are the harness's payloads and the  *)
(* payloads of other clients, among them strings written like a key.       *)

MaxFallbackMsgs == 2

FallbackArgs ==
    [subs |-> 1, groups |-> 0, subsPerGroup |-> 0, publishers |-> 1,
     messagesPerPub |-> MaxFallbackMsgs, qos |-> 1, edgeDisconnect |-> FALSE,
     sessionExpiry |-> DefaultSessionExpiry]

\* The string `pub-${p}:${s}` as a payload.
KeyShaped(p, s) == PubClientId(p) \o <<":">> \o Dec(s)

OtherPayloads ==
    ForeignPayloads \cup {KeyShaped(p, s) : p \in PubIdx, s \in 1 .. messagesPerPub}

FallbackInit ==
    /\ runner = "inflight"
    /\ argv = FallbackArgs
    /\ rejects = {}
    /\ pc = "drain"
    /\ exitCode = Running
    /\ errors = {}
    /\ conn = [c \in ConnIds |->
                  IF c[1] = "pub" THEN "connected"
                  ELSE IF c[3] = ReSub THEN "active" ELSE "closed"]
    /\ subscribers = [i \in SubIdx |-> ReSub]
    /\ subReady = SubIdx
    /\ \E own \in SUBSET AllPayloads : \E other \in SUBSET OtherPayloads :
          /\ Cardinality(other) <= MaxForeign
          /\ inflight = [i \in SubIdx |-> own \cup other]
          /\ foreign = Cardinality(other)
    /\ receivedMap = [i \in SubIdx |-> {}]
    /\ arrivals = [i \in SubIdx |-> 0]
    /\ groupsReceivedMap = <<>>
    /\ publishedCount = totalMessages
    /\ halfwayTriggered = TRUE
    /\ seq = [p \in PubIdx |-> messagesPerPub + 1]
    /\ loop = [p \in PubIdx |-> "done"]
    /\ timers = [t \in TimerIds |-> IF t = Main THEN waitTime ELSE NoTimer]
    /\ brokerSub = [i \in SubIdx |-> TRUE]
    /\ late = [i \in SubIdx |-> {}]
    /\ stalled = {}
    /\ faults = 0
    /\ emitted = [k \in 1 .. totalMessages |->
                     <<(k - 1) % numPublishers, ((k - 1) \div numPublishers) + 1>>]
    /\ gotSuback = {c \in ConnIds : c[1] = "sub"}
    /\ opened = 2 * NumSubscribers + numPublishers
    /\ verdict = <<>>
    /\ overallPass = TRUE
    /\ csvRows = <<>>
    /\ injections = <<halfwayCount>>
    /\ driver = DriverIdle
    /\ tester = TesterIdle
    /\ main = MainIdle
    /\ subRequests = [c \in SubConns |->
                         [connect |-> IF c[3] = ReSub THEN ReSubOptions(c[2])
                                      ELSE SubOptions(c[2]),
                          subscribe |-> IF c[3] = ReSub THEN ReSubscribe(c[2])
                                        ELSE Subscribe(c[2])]]

FallbackNext ==
    \/ \E i \in SubIdx : \E m \in inflight[i] : Deliver(i, m)
    \/ Verify

FallbackSpec == FallbackInit /\ [][FallbackNext]_vars

-----------------------------------------------------------------------------
(* mqttMultiSubTester: clientCount subscriber clients started in batches,  *)
(* a statistics interval, and the SIGINT handler that ends the clients and *)
(* exits from the callback of the last end().                              *)

MaxTesterClients == 3
MaxSigints == 2
MaxTesterMessages == 1

\* `const batchSize = 100` of launchClientsInBatches, scaled down so that a
\* run of MaxTesterClients clients has a second batch.
batchSize == 2

clientCount == argv.clientCount

\* The variables mqttMultiSubTester does not have.
otherVars == <<pc, errors, driver, scenarioVars>>

TesterInit ==
    /\ runner = "tester"
    /\ argv \in [clientCount : 0 .. MaxTesterClients]
    /\ pc = "start"
    /\ exitCode = Running
    /\ errors = {}
    /\ driver = DriverIdle
    /\ tester = TesterIdle
    /\ main = MainIdle
    /\ subRequests = <<>>
    /\ rejects = {}
    /\ conn = <<>>
    /\ subscribers = <<>>
    /\ subReady = {}
    /\ receivedMap = <<>>
    /\ groupsReceivedMap = <<>>
    /\ publishedCount = 0
    /\ halfwayTriggered = FALSE
    /\ seq = <<>>
    /\ loop = <<>>
    /\ timers = <<>>
    /\ brokerSub = <<>>
    /\ inflight = <<>>
    /\ late = <<>>
    /\ stalled = {}
    /\ faults = 0
    /\ foreign = 0
    /\ emitted = <<>>
    /\ gotSuback = {}
    /\ opened = 0
    /\ verdict = <<>>
    /\ overallPass = TRUE
    /\ csvRows = <<>>
    /\ injections = <<>>
    /\ arrivals = <<>>

\* launchClientsInBatches from the loop test at i to its next await, or to
\* startStatsTimer after the loop: clients.push(startClient(j)) for the
\* batch, then the 1000 ms wait if clients are left.
LaunchFrom(t, i) ==
    IF i < clientCount
    THEN LET end == IF i + batchSize < clientCount THEN i + batchSize ELSE clientCount
         IN [t EXCEPT !.clients = @ \o [k \in 1 .. (end - i) |-> "connecting"],
                      !.next = i + batchSize,
                      !.launch = IF end < clientCount THEN "waiting" ELSE "done",
                      !.statsTimer = ~(end < clientCount)]
    ELSE [t EXCEPT !.launch = "done", !.statsTimer = TRUE]

\* The script is run: the globals, and launchClientsInBatches() up to its
\* first await.
StartTester ==
    /\ runner = "tester"
    /\ ~tester.started
    /\ exitCode = Running
    /\ tester' = LaunchFrom([started |-> TRUE, clients |-> <<>>, next |-> 0,
                             launch |-> "start", statsTimer |-> FALSE,
                             handlers |-> <<>>, globalTotal |-> 0, summary |-> 0,
                             printed |-> 0 - 1], 0)
    /\ UNCHANGED <<runner, argv, exitCode, main, otherVars>>

\* The 1000 ms timer between two batches.
BatchTimer ==
    /\ tester.started
    /\ exitCode = Running
    /\ tester.launch = "waiting"
    /\ tester' = LaunchFrom(tester, tester.next)
    /\ UNCHANGED <<runner, argv, exitCode, main, otherVars>>

\* CONNACK on a client that has not been ended.
TesterConnAck(k) ==
    /\ tester.started
    /\ exitCode = Running
    /\ tester.clients[k] = "connecting"
    /\ tester' = [tester EXCEPT !.clients[k] = "connected"]
    /\ UNCHANGED <<runner, argv, exitCode, main, otherVars>>

\* The 'message' handler of a client: the counters and the summary file.
TesterMessage(k) ==
    /\ tester.started
    /\ exitCode = Running
    /\ tester.clients[k] = "connected"
    /\ tester.globalTotal < MaxTesterMessages
    /\ tester' = [tester EXCEPT !.globalTotal = @ + 1, !.summary = tester.globalTotal + 1]
    /\ UNCHANGED <<runner, argv, exitCode, main, otherVars>>

\* The statistics interval prints globalTotal.
TesterStats ==
    /\ tester.started
    /\ exitCode = Running
    /\ tester.statsTimer
    /\ tester.printed # tester.globalTotal
    /\ tester' = [tester EXCEPT !.printed = tester.globalTotal]
    /\ UNCHANGED <<runner, argv, exitCode, main, otherVars>>

\* tryExit after `disconnected++` in the handler of the h-th SIGINT: the
\* count is compared with clients.length as it is now.
TryExit(t, h) == t.handlers[h].disconnected = Len(t.clients)

\* The SIGINT handler: a new `disconnected`, and end(false, {}, cb) on every
\* client in clients.  The callback of a client that an earlier SIGINT has
\* ended already is called at once (now) or with the close of the client.
Sigint(now) ==
    /\ tester.started
    /\ exitCode = Running
    /\ Len(tester.handlers) < MaxSigints
    /\ LET ending == {k \in DOMAIN tester.clients :
                         tester.clients[k] \in {"closing", "closed"}}
           called == IF now THEN ending ELSE {}
           h == Len(tester.handlers) + 1
           t == [tester EXCEPT
                    !.clients = [k \in DOMAIN tester.clients |->
                                    IF k \in ending THEN tester.clients[k] ELSE "closing"],
                    !.handlers = Append(@, [disconnected |-> Cardinality(called),
                                            size |-> Len(tester.clients),
                                            pending |-> DOMAIN tester.clients \ called])]
       IN IF called # {} /\ TryExit(t, h)
          THEN /\ tester' = [t EXCEPT !.summary = t.globalTotal]
               /\ exitCode' = 0
          ELSE /\ tester' = t
               /\ exitCode' = exitCode
    /\ UNCHANGED <<runner, argv, main, otherVars>>

\* The handlers after the end() callbacks of client k have run.
Called(t, k) ==
    [t EXCEPT !.handlers =
        [h \in DOMAIN t.handlers |->
            IF k \in t.handlers[h].pending
            THEN [t.handlers[h] EXCEPT !.disconnected = @ + 1, !.pending = @ \ {k}]
            ELSE t.handlers[h]]]

\* The close of an ended client completes, and the callbacks of the end()
\* calls that wait for it run: tryExit.
TesterClosed(k) ==
    /\ tester.started
    /\ exitCode = Running
    /\ \/ tester.clients[k] = "closing"
       \/ /\ tester.clients[k] = "closed"
          /\ \E h \in DOMAIN tester.handlers : k \in tester.handlers[h].pending
    /\ LET t == Called([tester EXCEPT !.clients[k] = "closed"], k)
       IN IF \E h \in DOMAIN t.handlers :
                 k \in tester.handlers[h].pending /\ TryExit(t, h)
          THEN /\ tester' = [t EXCEPT !.summary = t.globalTotal]
               /\ exitCode' = 0
          ELSE /\ tester' = t
               /\ exitCode' = exitCode
    /\ UNCHANGED <<runner, argv, main, otherVars>>

\* The positions of the clients array.
TesterClients == IF tester.started THEN DOMAIN tester.clients ELSE {}

\* What the event loop and the network do in any case.
TesterRegular ==
    \/ StartTester
    \/ BatchTimer
    \/ \E k \in TesterClients : TesterConnAck(k)
    \/ \E k \in TesterClients : TesterClosed(k)
    \/ TesterStats

TesterNext ==
    \/ TesterRegular
    \/ \E k \in TesterClients : TesterMessage(k)
    \/ \E now \in BOOLEAN : Sigint(now)

TesterSpec == TesterInit /\ [][TesterNext]_vars

\* Every timer that is due expires and every network step completes; the
\* messages and the signals are the environment's choice.
FairTesterSpec ==
    /\ TesterInit
    /\ [][TesterNext]_vars
    /\ WF_vars(StartTester)
    /\ WF_vars(BatchTimer)
    /\ WF_vars(\E k \in TesterClients : TesterConnAck(k))
    /\ \A k \in 1 .. MaxTesterClients :
          WF_vars(k \in TesterClients /\ TesterClosed(k))
    /\ WF_vars(TesterStats)

-----------------------------------------------------------------------------
(* mqttMultiSubMain and its workers (src/unnamed/part_002): the main       *)
(* thread splits the client indices among the workers, gathers their       *)
(* 'stats' messages and prints the aggregate; a worker starts its clients  *)
(* in batches, counts the messages and reports once a second.              *)

MaxMainClients == 2
MaxLaunchClients == 12
MaxMainMessages == 2

\* `const cpuCount = 10`
cpuCount == 10

\* `const batch = 50` of the worker, scaled down so that a range of three
\* clients has a second batch.
batch == 2

\* What JavaScript gives for a property that was never set, and for a sum
\* with such an operand.
Undefined == 0 - 1
NaN == 0 - 2

numWorkers == IF cpuCount < clientCount THEN cpuCount ELSE clientCount
baseClientsPerWorker == clientCount \div numWorkers
WorkerIds == 0 .. (numWorkers - 1)

\* The range that gives the last worker no more than the others.
clientEnd_base(i) == (i * baseClientsPerWorker) + baseClientsPerWorker

\* lines 44-45
clientStart(i) == i * baseClientsPerWorker
clientEnd(i) ==
    IF i = numWorkers - 1 THEN clientCount ELSE clientStart(i) + baseClientsPerWorker

\* The key of `totals[worker]`: the worker object converted to a string,
\* which is the same string for every worker.
PropertyKey(w) == "[object Object]"

\* obj[key]
Get(props, key) == IF key \in DOMAIN props THEN props[key] ELSE Undefined
\* obj[key] = value
Put(props, key, value) ==
    [k \in DOMAIN props \cup {key} |-> IF k = key THEN value ELSE props[k]]

\* a + b of JavaScript on numbers, undefined and NaN
Plus(a, b) == IF a \in {Undefined, NaN} \/ b \in {Undefined, NaN} THEN NaN ELSE a + b

\* The loop of lines 89-92 over workers[0 .. n - 1].
RECURSIVE SumTotals(_, _)
SumTotals(props, n) ==
    IF n = 0 THEN 0 ELSE Plus(SumTotals(props, n - 1), Get(props, PropertyKey(n - 1)))

\* The variables mqttMultiSubMain does not have.
mainOtherVars == <<pc, errors, driver, tester, scenarioVars>>

MainInitWith(counts) ==
    /\ runner = "main"
    /\ argv \in [clientCount : counts]
    /\ pc = "start"
    /\ exitCode = Running
    /\ errors = {}
    /\ driver = DriverIdle
    /\ tester = TesterIdle
    /\ main = MainIdle
    /\ subRequests = <<>>
    /\ rejects = {}
    /\ conn = <<>>
    /\ subscribers = <<>>
    /\ subReady = {}
    /\ receivedMap = <<>>
    /\ groupsReceivedMap = <<>>
    /\ publishedCount = 0
    /\ halfwayTriggered = FALSE
    /\ seq = <<>>
    /\ loop = <<>>
    /\ timers = <<>>
    /\ brokerSub = <<>>
    /\ inflight = <<>>
    /\ late = <<>>
    /\ stalled = {}
    /\ faults = 0
    /\ foreign = 0
    /\ emitted = <<>>
    /\ gotSuback = {}
    /\ opened = 0
    /\ verdict = <<>>
    /\ overallPass = TRUE
    /\ csvRows = <<>>
    /\ injections = <<>>
    /\ arrivals = <<>>

MainInit == MainInitWith(1 .. MaxMainClients)
LaunchInit == MainInitWith(1 .. MaxLaunchClients)

\* A worker thread that has been created and has not run yet.
NewWorker(i) ==
    [startIndex |-> clientStart(i), endIndex |-> clientEnd(i), phase |-> "new",
     i |-> clientStart(i), clients |-> <<>>, LocalTotal |-> 0, LocalSession |-> 0,
     outbox |-> <<>>, reported |-> 0, shutdown |-> "no", counted |-> FALSE]

\* The script is run: the workers are created, the handlers registered, the
\* statistics interval started.
StartMain ==
    /\ runner = "main"
    /\ ~main.started
    /\ exitCode = Running
    /\ main' = [started |-> TRUE,
                workers |-> [i \in WorkerIds |-> NewWorker(i)],
                totalsMap |-> [i \in WorkerIds |-> 0],
                totals |-> <<>>,
                summary |-> [total |-> 0, session |-> 0],
                shuttingDown |-> FALSE,
                workersDone |-> 0,
                printed |-> Undefined,
                final |-> Undefined,
                received |-> 0]
    /\ UNCHANGED <<runner, argv, exitCode, mainOtherVars>>

MainWorkers == IF main.started THEN WorkerIds ELSE {}

\* The worker's loop from its test at i to the wait(1000) after the batch,
\* or past the loop to the start of its statistics interval.
BatchFrom(wk) ==
    IF wk.i < wk.endIndex
    THEN LET end == IF wk.i + batch < wk.endIndex THEN wk.i + batch ELSE wk.endIndex
         IN [wk EXCEPT !.clients = @ \o [k \in 1 .. (end - wk.i) |-> wk.i + k - 1],
                       !.i = @ + batch,
                       !.phase = "waiting"]
    ELSE [wk EXCEPT !.phase = "running"]

\* The worker thread runs its script up to the first await.
WorkerRun(w) ==
    /\ main.started
    /\ exitCode = Running
    /\ main.workers[w].phase = "new"
    /\ main' = [main EXCEPT !.workers[w] = BatchFrom(@)]
    /\ UNCHANGED <<runner, argv, exitCode, mainOtherVars>>

\* The 1000 ms timer after a batch.
WorkerWait(w) ==
    /\ main.started
    /\ exitCode = Running
    /\ main.workers[w].phase = "waiting"
    /\ main.workers[w].shutdown # "exited"
    /\ main' = [main EXCEPT !.workers[w] = BatchFrom(@)]
    /\ UNCHANGED <<runner, argv, exitCode, mainOtherVars>>

\* The 'message' handler of a client of worker w.
WorkerMessage(w) ==
    /\ main.started
    /\ exitCode = Running
    /\ main.workers[w].clients # <<>>
    /\ main.workers[w].shutdown \in {"no", "posted"}
    /\ main.received < MaxMainMessages
    /\ main' = [main EXCEPT !.workers[w].LocalTotal = @ + 1,
                            !.workers[w].LocalSession = @ + 1,
                            !.received = @ + 1]
    /\ UNCHANGED <<runner, argv, exitCode, mainOtherVars>>

\* The worker's statistics interval (lines 72-77).
WorkerStats(w) ==
    /\ main.started
    /\ exitCode = Running
    /\ main.workers[w].phase = "running"
    /\ main.workers[w].shutdown # "exited"
    /\ main.workers[w].LocalSession > 0
    /\ main' = [main EXCEPT !.workers[w].outbox = Append(@, main.workers[w].LocalTotal),
                            !.workers[w].LocalSession = 0]
    /\ UNCHANGED <<runner, argv, exitCode, mainOtherVars>>

\* worker.on('message') in the main thread, for a 'stats' message.
MainOnMessage(w) ==
    /\ main.started
    /\ exitCode = Running
    /\ main.workers[w].outbox # <<>>
    /\ LET msgTotal == Head(main.workers[w].outbox) IN
       main' = [main EXCEPT !.totals = Put(@, PropertyKey(w), msgTotal),
                            !.workers[w].reported = msgTotal,
                            !.workers[w].outbox = Tail(@)]
    /\ UNCHANGED <<runner, argv, exitCode, mainOtherVars>>

\* The main thread's statistics interval (lines 86-96).
MainStats ==
    /\ main.started
    /\ exitCode = Running
    /\ main.printed # SumTotals(main.totals, numWorkers)
    /\ main' = [main EXCEPT !.printed = SumTotals(main.totals, numWorkers)]
    /\ UNCHANGED <<runner, argv, exitCode, mainOtherVars>>

\* The SIGINT handler of the main thread.
MainSigint ==
    /\ main.started
    /\ exitCode = Running
    /\ ~main.shuttingDown
    /\ main' = [main EXCEPT
                   !.shuttingDown = TRUE,
                   !.workers = [w \in WorkerIds |->
                                   IF main.workers[w].shutdown = "no"
                                   THEN [main.workers[w] EXCEPT !.shutdown = "posted"]
                                   ELSE main.workers[w]]]
    /\ UNCHANGED <<runner, argv, exitCode, mainOtherVars>>

\* parentPort.on('message') in the worker, for the 'shutdown' message.
WorkerShutdown(w) ==
    /\ main.started
    /\ exitCode = Running
    /\ main.workers[w].phase # "new"
    /\ main.workers[w].shutdown = "posted"
    /\ main' = [main EXCEPT !.workers[w].shutdown = "timer"]
    /\ UNCHANGED <<runner, argv, exitCode, mainOtherVars>>

\* The worker's 1000 ms timer of line 86: process.exit(0) ends the thread.
WorkerExit(w) ==
    /\ main.started
    /\ exitCode = Running
    /\ main.workers[w].shutdown = "timer"
    /\ main' = [main EXCEPT !.workers[w].shutdown = "exited"]
    /\ UNCHANGED <<runner, argv, exitCode, mainOtherVars>>

\* worker.on('exit') in the main thread (lines 73-80).
MainOnExit(w) ==
    /\ main.started
    /\ exitCode = Running
    /\ main.workers[w].shutdown = "exited"
    /\ ~main.workers[w].counted
    /\ LET done == main.workersDone + 1 IN
       /\ main' = [main EXCEPT !.workersDone = done,
                               !.workers[w].counted = TRUE,
                               !.final = IF done = numWorkers
                                         THEN main.summary.total ELSE @]
       /\ exitCode' = IF done = numWorkers THEN 0 ELSE exitCode
    /\ UNCHANGED <<runner, argv, mainOtherVars>>

LaunchNext ==
    \/ StartMain
    \/ \E w \in MainWorkers : WorkerRun(w)
    \/ \E w \in MainWorkers : WorkerWait(w)

MainNext ==
    \/ LaunchNext
    \/ \E w \in MainWorkers : WorkerMessage(w)
    \/ \E w \in MainWorkers : WorkerStats(w)
    \/ \E w \in MainWorkers : MainOnMessage(w)
    \/ MainStats
    \/ MainSigint
    \/ \E w \in MainWorkers : WorkerShutdown(w)
    \/ \E w \in MainWorkers : WorkerExit(w)
    \/ \E w \in MainWorkers : MainOnExit(w)

MainSpec == MainInit /\ [][MainNext]_vars

\* The launch alone, on the larger client counts.
LaunchSpec == LaunchInit /\ [][LaunchNext]_vars

-----------------------------------------------------------------------------
(* Properties. *)

\* The keys of the expected universe that subscriber i has recorded.
HasAll(i) ==
    \A p \in PubIdx : \A s \in 1 .. messagesPerPub :
        IndexKey(PubClientId(p), Dec(s)) \in receivedMap[i]

\* The receiver list of a payload in a group's map ("|| []").
ReceivedBy(grm, g, payload) ==
    IF payload \in DOMAIN grm[g] THEN grm[g][payload] ELSE <<>>

\* Every payload of the expected universe has exactly one receiver in group g.
ExactlyOnce(grm, g) ==
    \A p \in PubIdx : \A s \in 1 .. messagesPerPub :
        Len(ReceivedBy(grm, g, Payload(p, s))) = 1

\* C1: in both runners no publish call is issued before every subscriber
\* created during setup has received the SUBACK of its subscribe request.
C1_NoPublishBeforeSuback ==
    Len(emitted) > 0 => \A i \in SubIdx : SubConn(i, Original) \in gotSuback

\* A publish has been issued after a SUBACK was late, in each runner.
C1_Witness ==
    /\ Len(emitted) > 0
    /\ faults > 0
    /\ NumSubscribers = MaxSubs
    /\ \A i \in SubIdx : SubConn(i, Original) \in gotSuback

\* C2: at most one open connection is bound to a subscriber identity: the
\* replacement is opened only after the previous client has finished closing.
C2_OneOpenConnection ==
    \A i \in SubIdx :
        ~(IsOpen(conn[SubConn(i, Original)]) /\ IsOpen(conn[SubConn(i, ReSub)]))

\* The replacement has been opened with the previous client closed.
C2_Witness ==
    \E i \in SubIdx :
        conn[SubConn(i, Original)] = "closed" /\ IsOpen(conn[SubConn(i, ReSub)])

\* C3: when runInflightTest verifies, a subscriber's verdict is PASS if and
\* only if no key pub-p:seq of the expected universe is absent from its
\* received set, and the overall outcome is "all passed" if and only if every
\* subscriber's verdict is PASS.
C3_InflightVerdict ==
    [][(Inflight /\ pc = "drain" /\ pc' = "closingSubs") =>
          /\ \A i \in SubIdx : (verdict'[i] = "PASS") <=> HasAll(i)
          /\ overallPass' <=> \A i \in SubIdx : verdict'[i] = "PASS"]_vars

\* Verification has given one subscriber PASS and another FAIL.
C3_Witness ==
    /\ Inflight
    /\ pc = "closingSubs"
    /\ ~overallPass
    /\ \E i, j \in SubIdx : verdict[i] = "PASS" /\ verdict[j] = "FAIL"

\* C4 as stated: when runSharedSubscriptionTest verifies, a group's verdict is
\* PASS if and only if every payload of the expected universe has exactly one
\* entry in the group's receiver list; equivalently, if and only if every
\* report row of the group has status Pass.
C4_GroupVerdictUniverseOnly ==
    [][(Shared /\ pc = "drain" /\ pc' = "closingSubs") =>
          \A g \in GroupIdx :
              /\ (verdict'[g] = "PASS") <=> ExactlyOnce(groupsReceivedMap, g)
              /\ (verdict'[g] = "PASS") <=>
                     \A k \in DOMAIN csvRows' :
                         csvRows'[k].group = g => csvRows'[k].status = "Pass"]_vars

\* C4 amended: a group's verdict is PASS if and only if every payload of the
\* expected universe has exactly one entry in the group's receiver list and
\* no other recorded payload has a list of another length than one; a PASS
\* group has only Pass rows.
C4_GroupVerdict ==
    [][(Shared /\ pc = "drain" /\ pc' = "closingSubs") =>
          \A g \in GroupIdx :
              /\ (verdict'[g] = "PASS") <=>
                     /\ ExactlyOnce(groupsReceivedMap, g)
                     /\ \A payload \in DOMAIN groupsReceivedMap[g] :
                            Len(groupsReceivedMap[g][payload]) = 1
              /\ (verdict'[g] = "PASS") =>
                     \A k \in DOMAIN csvRows' :
                         csvRows'[k].group = g => csvRows'[k].status = "Pass"]_vars

\* A group has failed on a payload outside the universe alone.
C4_Witness ==
    /\ Shared
    /\ pc = "closingSubs"
    /\ totalMessages > 0
    /\ \E g \in GroupIdx :
          /\ verdict[g] = "FAIL"
          /\ ExactlyOnce(groupsReceivedMap, g)
          /\ \E payload \in DOMAIN groupsReceivedMap[g] :
                Len(groupsReceivedMap[g][payload]) = 2

\* C5: in runInflightTest with at least one subscriber and one publisher, a
\* broker that delivers every message to every subscriber and a run without
\* fault injection, every subscriber's missing set is empty when the ledger
\* is verified, and every verdict is PASS.
C5_NoChurnAllPass ==
    (Inflight /\ Verified /\ ~halfwayTriggered /\ faults = 0) =>
        \A i \in SubIdx : HasAll(i) /\ verdict[i] = "PASS"

\* Such a run has been verified, with messages of two publishers.
C5_Witness ==
    /\ Inflight
    /\ Verified
    /\ ~halfwayTriggered
    /\ faults = 0
    /\ NumSubscribers = MaxSubs
    /\ numPublishers = MaxPubs
    /\ messagesPerPub >= 2
    /\ \A i \in SubIdx : verdict[i] = "PASS"

\* C6 as stated: in runSharedSubscriptionTest without edgeDisconnect and with
\* a broker that hands each message to one member of each group, every
\* payload of the universe has exactly one receiver in each group when the
\* ledger is verified, and every group's verdict is PASS.
C6_SharedAllPassAnyTraffic ==
    (Shared /\ Verified /\ ~edgeDisconnect /\ faults = 0) =>
        \A g \in GroupIdx : ExactlyOnce(groupsReceivedMap, g) /\ verdict[g] = "PASS"

\* C6 amended: the same, in a run in which no other client publishes on the
\* topic.
C6_SharedAllPass ==
    (Shared /\ Verified /\ ~edgeDisconnect /\ faults = 0 /\ foreign = 0) =>
        \A g \in GroupIdx : ExactlyOnce(groupsReceivedMap, g) /\ verdict[g] = "PASS"

\* Such a run has been verified, with a group of two members.
C6_Witness ==
    /\ Shared
    /\ Verified
    /\ ~edgeDisconnect
    /\ faults = 0
    /\ foreign = 0
    /\ subsPerGroup = MaxSubs
    /\ totalMessages >= 2
    /\ \A g \in GroupIdx : verdict[g] = "PASS"

\* C7: in runInflightTest with QoS 1 or 2, a session expiry longer than the
\* 3 s between disconnect and reconnect and a broker that queues for the
\* offline session, every subscriber that the fault injection disconnected
\* and reconnected has an empty missing set when the ledger is verified.
C7_RedeliveryAfterReconnect ==
    (/\ Inflight
     /\ Verified
     /\ halfwayTriggered
     /\ qos >= 1
     /\ sessionExpiry * TicksPerSecond > ReconnectDelay
     /\ faults = 0) =>
        \A i \in SubIdx : subscribers[i] = ReSub => HasAll(i)

\* Such a run has been verified after a disconnect and a reconnect.
C7_Witness ==
    /\ Inflight
    /\ Verified
    /\ halfwayTriggered
    /\ qos >= 1
    /\ sessionExpiry * TicksPerSecond > ReconnectDelay
    /\ faults = 0
    /\ \A i \in SubIdx : subscribers[i] = ReSub /\ verdict[i] = "PASS"

\* C8: in both runners a configuration with fewer than one subscriber (or
\* group, or subscriber per group) or fewer than one publisher does nothing
\* but report an error and exit with code 1; no connection is ever opened.
C8_ConfigViolationFatal ==
    (IF Inflight THEN numSubs < 1 \/ numPublishers < 1
     ELSE numGroups < 1 \/ subsPerGroup < 1 \/ numPublishers < 1) =>
        /\ opened = 0
        /\ \A c \in ConnIds : conn[c] = "none"
        /\ \/ pc = "start"
           \/ pc = "exited" /\ exitCode = 1 /\ <<"config", 0>> \in errors

\* A run has exited on a configuration that lacks only a publisher, or only
\* a subscriber.
C8_Witness ==
    /\ pc = "exited"
    /\ exitCode = 1
    /\ NumSubscribers < 1 \/ numPublishers < 1
    /\ NumSubscribers >= 1 \/ numPublishers >= 1

\* C9: if some subscriber never receives a SUBACK, the readiness barrier does
\* not wait forever: the run ends, with the failure reported and a non-zero
\* exit code.
C9_BarrierTerminates ==
    (pc = "awaitSubacks" /\ \E i \in SubIdx : <<"sub", i>> \in rejects)
        ~> (pc = "exited" /\ exitCode > 0)

\* The barrier waits on a subscriber whose connection has been refused.
C9_Witness ==
    /\ pc = "awaitSubacks"
    /\ \E i \in SubIdx : <<"sub", i>> \in rejects /\ <<"sub", i>> \in errors

\* C10: when the connection of one identity fails and another identity
\* connects, the failure is reported for that identity and the run goes on
\* through publishing to a verdict.
C10_RunProceeds ==
    (/\ exitCode = Running
     /\ \E x \in rejects : x \in errors
     /\ \E c \in ConnIds : Identity(c) \notin rejects
                           /\ conn[c] \in {"active", "connected"})
        ~> Verified

\* One identity has been refused and reported while another is connected.
C10_Witness ==
    /\ rejects # {}
    /\ rejects \subseteq errors
    /\ pc \in {"awaitSubacks", "awaitPubs"}
    /\ \E c \in ConnIds : conn[c] \in {"active", "connected"}

\* The publishing phase of the run is over.
PublishingDone == pc = "drain" \/ Verified

\* C11: in a run with fault injection enabled (runInflightTest; or
\* runSharedSubscriptionTest with edgeDisconnect) and at least one expected
\* message, the fault injection begins exactly once during publishing, at the
\* publish that brings the publish count to floor(total/5) (floor(total/2)),
\* whatever the interleaving of the publishers' loops.
C11_InjectedExactlyOnce ==
    (Inflight \/ edgeDisconnect) =>
        /\ Len(injections) <= 1
        /\ \A k \in DOMAIN injections : injections[k] = halfwayCount
        /\ (PublishingDone /\ totalMessages >= 1) => Len(injections) = 1

\* The fault injection has begun once, with two publishers' loops running.
C11_Witness ==
    /\ PublishingDone
    /\ numPublishers = MaxPubs
    /\ injections = <<halfwayCount>>
    /\ halfwayTriggered

\* The sequence numbers publisher p has put into its publish calls, in order.
EmittedBy(p) ==
    LET sel == SelectSeq(emitted, LAMBDA e : e[1] = p)
    IN [k \in 1 .. Len(sel) |-> sel[k][2]]

\* C12: in both runners the sequence numbers a publisher emits are exactly
\* 1, 2, ..., messagesPerPub, in increasing order and none twice, whatever
\* publish errors and fault injection happen during the loop.
C12_SequenceNumbers ==
    \A p \in PubIdx :
        /\ \A k \in DOMAIN EmittedBy(p) : EmittedBy(p)[k] = k
        /\ Len(EmittedBy(p)) <= messagesPerPub
        /\ PublishingDone => Len(EmittedBy(p)) = messagesPerPub

\* Publishing is over in a run with a failed publish and a fault injection.
C12_Witness ==
    /\ PublishingDone
    /\ halfwayTriggered
    /\ messagesPerPub >= 2
    /\ \E p \in PubIdx : <<"publish", p>> \in errors

\* C13: in the multi-publisher drivers the sequence numbers in the payloads
\* a publisher publishes start at 1 and are strictly increasing, so that no
\* number is published twice, also when the client reconnects while a
\* scheduled publish is pending.
C13_StrictlyIncreasing ==
    driver.started =>
        \A p \in DriverPubs :
            LET sent == driver.pubs[p].sent IN
            /\ sent # <<>> => sent[1] = 1
            /\ \A k \in 1 .. (Len(sent) - 1) : sent[k] < sent[k + 1]

C13_Witness ==
    /\ driver.started
    /\ driver.drops > 0
    /\ \E p \in DriverPubs : Len(driver.pubs[p].sent) >= 2

\* A publisher that has stopped scheduling: no timer pending, no publish
\* waiting for its callback, and the quota passed.
Stopped(p) ==
    /\ driver.pubs[p].timers = 0
    /\ driver.pubs[p].pending = <<>>
    /\ driver.pubs[p].nextMsg > numberMessages

\* C14: each publisher of the drivers makes exactly numberMessages publish
\* attempts, one for each sequence number 1 .. numberMessages (none skipped,
\* none beyond the quota), before it stops scheduling, also when its client
\* reconnects.
C14_ExactQuota ==
    driver.started =>
        \A p \in DriverPubs :
            LET sent == driver.pubs[p].sent IN
            /\ Len(sent) <= numberMessages
            /\ \A k \in DOMAIN sent : sent[k] \in 1 .. numberMessages
            /\ Stopped(p) => sent = [k \in 1 .. numberMessages |-> k]

C14_Witness ==
    /\ driver.started
    /\ driver.drops > 0
    /\ numberMessages >= 2
    /\ \E p \in DriverPubs : Stopped(p) /\ Len(driver.pubs[p].sent) >= numberMessages

\* Every publisher has seen the callbacks of numberMessages publishes.
AllAttempted ==
    /\ driver.started
    /\ \A p \in DriverPubs : driver.pubs[p].publishedCount >= numberMessages

\* Completion has been signalled: the statistics printer reported it and,
\* in part_000, ended the process.
CompletionSignalled ==
    /\ driver.started
    /\ driver.completed
    /\ runner = "part_000" => exitCode = 0

\* C15: once every publisher has attempted all its numberMessages publishes,
\* completion is eventually signalled (reported by the statistics printer
\* and, in part_000, the process exits), whether the attempts were
\* acknowledged or failed.
C15_CompletionSignalled ==
    AllAttempted ~> CompletionSignalled

C15_Witness ==
    /\ AllAttempted
    /\ numberMessages >= 1
    /\ CompletionSignalled

\* C16: a publish of a driver's publisher that fails for sequence number k
\* is counted as one failure, is not retried and does not stop the
\* publisher: with k below the quota, the next publish of that publisher
\* carries k + 1.
C16_FailureThenNext ==
    [][driver.started =>
        \A p \in DriverPubs :
            LET old == driver.pubs[p]
                new == driver'.pubs[p]
            IN /\ new.failedCount # old.failedCount =>
                    /\ new.failedCount = old.failedCount + 1
                    /\ driver'.totalFailed = driver.totalFailed + 1
                    /\ new.sent = old.sent
               /\ ( /\ Len(new.sent) > Len(old.sent)
                    /\ old.lastDone[2] = "failed"
                    /\ old.lastDone[1] < numberMessages )
                  => new.sent[Len(new.sent)] = old.lastDone[1] + 1]_vars

C16_Witness ==
    /\ driver.started
    /\ \E p \in DriverPubs :
          LET pub == driver.pubs[p] IN
          /\ pub.lastDone[2] = "failed"
          /\ pub.lastDone[1] < numberMessages
          /\ pub.failedCount = 1
          /\ pub.sent # <<>>
          /\ pub.sent[Len(pub.sent)] = pub.lastDone[1] + 1

\* C17: in runInflightTest a payload built for publisher pub-i and sequence
\* number seq >= 1 is recorded by the handler under the key pub-i:seq, and
\* distinct pairs are recorded under distinct keys, so that the pair is
\* recovered from the key.
C17_RoundTrip ==
    \A i \in SubIdx :
        /\ \A p \in PubIdx : \A s \in 1 .. messagesPerPub :
              Payload(p, s) \notin inflight[i] =>
                  (PubClientId(p) \o <<":">> \o Dec(s)) \in receivedMap[i]
        /\ Cardinality(receivedMap[i]) = Cardinality(AllPayloads \ inflight[i])

C17_Witness ==
    /\ numPublishers >= 12
    /\ inflight[0] = {}
    /\ arrivals[0] = totalMessages
    /\ <<"pub-", "1", "1", ":", "2">> \in receivedMap[0]
    /\ <<"pub-", "1", ":", "1", "2">> \in receivedMap[0]

\* The step is the arrival of payload m on a client of subscriber i.
Arrived(i, m) ==
    /\ arrivals'[i] = arrivals[i] + 1
    /\ \/ m \in inflight[i] /\ m \notin inflight'[i]
       \/ m \in late[i] /\ m \notin late'[i]

C19_DuplicateIdempotent ==
    [][Inflight =>
        \A i \in SubIdx : \A m \in inflight[i] \cup late[i] :
            (Arrived(i, m) /\ StoredKey(m) \in receivedMap[i]) =>
                /\ receivedMap'[i] = receivedMap[i]
                /\ \A p \in PubIdx : missingByPublisher(i, p)' = missingByPublisher(i, p)
                /\ pass(i)' = pass(i)
                /\ InflightRows' = InflightRows]_vars

C19_Witness ==
    /\ Inflight
    /\ faults > 0
    /\ \E i \in SubIdx :
          /\ arrivals[i] > Cardinality(receivedMap[i])
          /\ late[i] = {}
          /\ receivedMap[i] # {}

\* C20: in both runners a run that has made its verification exits with
\* code 0, whether the verdicts are PASS or FAIL; the exit code is not 0 only
\* after a configuration violation or an error thrown by the harness.
C20_ExitCodes ==
    (runner \in {"inflight", "shared"} /\ pc = "exited") =>
        LET failed == <<"config", 0>> \in errors \/ <<"thrown", 0>> \in errors IN
        /\ exitCode \in {0, 1}
        /\ exitCode = 0 <=> ~failed
        /\ exitCode = 0 =>
              /\ DOMAIN verdict = (IF Inflight THEN SubIdx ELSE GroupIdx)
              /\ \A k \in DOMAIN verdict : verdict[k] \in {"PASS", "FAIL"}

C20_Witness ==
    /\ runner \in {"inflight", "shared"}
    /\ pc = "exited"
    /\ exitCode = 0
    /\ ~overallPass
    /\ \E k \in DOMAIN verdict : verdict[k] = "FAIL"

\* C21: the report of runInflightTest has exactly one row for every
\* (subscriber, publisher, sequence number) of the configuration, numSubs x
\* numPublishers x messagesPerPub rows in all, and the status of a row is
\* Pass exactly when the key publisher:sequence is in that subscriber's
\* received set at the verification.
C21_ReportRows ==
    [][(Inflight /\ pc = "drain" /\ pc' = "closingSubs") =>
        /\ Len(csvRows') = numSubs * numPublishers * messagesPerPub
        /\ \A i \in SubIdx : \A p \in PubIdx : \A s \in 1 .. messagesPerPub :
              Cardinality({k \in DOMAIN csvRows' :
                              /\ csvRows'[k].subscriber = i
                              /\ csvRows'[k].publisher = p
                              /\ csvRows'[k].index = s}) = 1
        /\ \A k \in DOMAIN csvRows' :
              LET row == csvRows'[k] IN
              /\ row.status \in {"Pass", "Fail"}
              /\ row.status = "Pass" <=>
                    (PubClientId(row.publisher) \o <<":">> \o Dec(row.index))
                        \in receivedMap[row.subscriber]]_vars

C21_Witness ==
    /\ Inflight
    /\ pc = "closingSubs"
    /\ numSubs = MaxSubs
    /\ numPublishers = MaxPubs
    /\ Len(csvRows) = MaxSubs * MaxPubs * messagesPerPub
    /\ \E k \in DOMAIN csvRows : csvRows[k].status = "Pass" /\ csvRows[k].subscriber = 1
    /\ \E k \in DOMAIN csvRows : csvRows[k].status = "Fail" /\ csvRows[k].subscriber = 0

\* The place of a phase in the order of the runners: subscribers created
\* and awaited (1), publishers created and awaited (2), publishing (3),
\* drain wait (4), teardown after verification and report (5), exit (6).
PhaseRank(ph) ==
    CASE ph = "start" -> 0
      [] ph \in {"awaitSubacks", "settleSubs"} -> 1
      [] ph \in {"awaitPubs", "settlePubs"} -> 2
      [] ph = "publishing" -> 3
      [] ph = "drain" -> 4
      [] ph \in {"closingSubs", "closingPubs"} -> 5
      [] OTHER -> 6

\* C22: a runner passes through its phases in their order only (subscribers
\* created and awaited, publishers created and awaited, publishing, drain,
\* verification and report, teardown, exit): a step stays in its phase, goes
\* to the next one, passes over an empty publishing phase, or exits; no
\* publisher's connection is opened before every subscriber has its SUBACK,
\* and the verdicts are computed only when the drain timer expires, after
\* every publisher has issued its last message.
C22_PhaseOrder ==
    [][(Inflight \/ Shared) =>
        /\ ( \/ PhaseRank(pc') \in {PhaseRank(pc), PhaseRank(pc) + 1}
             \/ (PhaseRank(pc) = 2 /\ pc' = "drain" /\ totalMessages = 0)
             \/ (pc \in {"start", "drain"} /\ pc' = "exited" /\ exitCode' = 1) )
        /\ (\E c \in ConnIds : c[1] = "pub" /\ conn'[c] # "none") =>
              \A i \in SubIdx : SubConn(i, Original) \in gotSuback'
        /\ verdict' # verdict =>
              /\ pc = "drain"
              /\ timers[Main] # NoTimer
              /\ timers'[Main] = NoTimer
              /\ (\A p \in PubIdx : Len(EmittedBy(p)) = messagesPerPub)]_vars

C22_Witness ==
    /\ runner \in {"inflight", "shared"}
    /\ pc = "exited"
    /\ exitCode = 0
    /\ halfwayTriggered
    /\ numPublishers = MaxPubs
    /\ Len(emitted) = totalMessages
    /\ verdict # <<>>

\* The window of the fault injection of runInflightTest: the publish count
\* has reached halfwayCount and the reconnect has not been issued yet.
InjectionWindow ==
    /\ Inflight
    /\ pc = "publishing"
    /\ injections # <<>>
    /\ \A i \in SubIdx : subscribers[i] = Original

\* C23: in runInflightTest publishing is not paused between the trigger of
\* the fault injection and the reconnect: every publisher that has not
\* ended its loop is in its 200 ms delay between two publishes, and no loop
\* waits for the fault injection.
C23_PublishingNotPaused ==
    InjectionWindow =>
        \A p \in PubIdx :
            loop[p] # "done" =>
                /\ loop[p] = "pace"
                /\ timers[LoopTimer(p)] \in 0 .. PublishDelay

C23_Witness ==
    /\ InjectionWindow
    /\ \E p, q \in PubIdx :
          /\ loop[p] = "preWait"
          /\ loop[q] = "pace"
          /\ seq[q] > seq[p]

\* The places in the order of all publishes of the first and of the last
\* message a publisher has issued.
FirstPos(p) == CHOOSE k \in DOMAIN emitted :
                   emitted[k][1] = p /\ \A j \in 1 .. (k - 1) : emitted[j][1] # p
LastPos(p) == CHOOSE k \in DOMAIN emitted :
                  emitted[k][1] = p /\ \A j \in (k + 1) .. Len(emitted) : emitted[j][1] # p

\* C24: with at least 2 publishers and 2 messages per publisher, the
\* publishers of either runner run concurrently: no publisher waits with its
\* first message while another is in the middle of its sequence, and every
\* publisher issues its first message before any other issues its last.
C24_PublishersConcurrent ==
    (numPublishers >= 2 /\ messagesPerPub >= 2) =>
        /\ \A p, q \in PubIdx :
              ~ /\ Len(EmittedBy(q)) = 0
                /\ Len(EmittedBy(p)) > 0
                /\ Len(EmittedBy(p)) < messagesPerPub
        /\ PublishingDone =>
              \A p, q \in PubIdx : p # q => FirstPos(p) < LastPos(q)

C24_Witness ==
    /\ numPublishers >= 2
    /\ messagesPerPub >= 2
    /\ PublishingDone
    /\ \A p, q \in PubIdx : p # q => FirstPos(p) < LastPos(q)

\* C25: the fault injection of runInflightTest disconnects every subscriber
\* in one step and later issues one reconnect for every subscriber, in one
\* step as well; the disconnect comes first, and neither happens a second
\* time in the run.
C25_MassDisconnectReconnect ==
    [][Inflight =>
        /\ (halfwayTriggered' /\ ~halfwayTriggered) =>
              \A i \in SubIdx :
                  /\ subscribers[i] = Original
                  /\ conn'[SubConn(i, Original)] \in {"closing", "closed"}
                  /\ conn'[SubConn(i, ReSub)] = "none"
        /\ halfwayTriggered => halfwayTriggered'
        /\ Len(injections') <= 1
        /\ (subscribers # <<>> /\ subscribers' # subscribers) =>
              /\ halfwayTriggered
              /\ opened' = opened + numSubs
              /\ \A i \in SubIdx :
                    /\ subscribers[i] = Original
                    /\ subscribers'[i] = ReSub
                    /\ conn[SubConn(i, ReSub)] = "none"
                    /\ conn'[SubConn(i, ReSub)] = "connecting"
        /\ (halfwayTriggered' /\ pc' \in {"closingSubs", "closingPubs"}) =>
              \A i \in SubIdx : subscribers'[i] = ReSub]_vars

C25_Witness ==
    /\ Inflight
    /\ numSubs = MaxSubs
    /\ halfwayTriggered
    /\ pc = "drain"
    /\ \A i \in SubIdx : subscribers[i] = ReSub /\ conn[SubConn(i, ReSub)] = "active"

\* C26: in both runners the client that the fault injection creates for a
\* subscriber connects with the clientId and the session expiry of that
\* subscriber's first client and with clean = false, and when it is
\* connected it subscribes to the filter and at the QoS of the first client:
\* the base topic in runInflightTest, $share/<group>/<base topic> of the
\* subscriber's own group in runSharedSubscriptionTest.
C26_ReconnectSameSession ==
    (Inflight \/ Shared) =>
        \A i \in SubIdx :
            LET first == subRequests[SubConn(i, Original)]
                again == subRequests[SubConn(i, ReSub)]
            IN /\ again.connect # <<>> =>
                    /\ first.connect # <<>>
                    /\ again.connect.clientId = first.connect.clientId
                    /\ again.connect.clean = FALSE
                    /\ again.connect.sessionExpiryInterval =
                           first.connect.sessionExpiryInterval
               /\ again.subscribe # <<>> =>
                    /\ again.subscribe = first.subscribe
                    /\ again.subscribe.qos = argv.qos
                    /\ again.subscribe.filter =
                           IF Inflight THEN <<"testtopic/test">>
                           ELSE <<"$share/", "Group">> \o Dec(GroupOf(i) + 1)
                                    \o <<"/", "testtopic/test">>

C26_Witness ==
    /\ Shared
    /\ numGroups = 2
    /\ subsPerGroup >= 1
    /\ halfwayTriggered
    /\ \A g \in GroupIdx :
          /\ conn[SubConn(FirstOfGroup(g), ReSub)] = "active"
          /\ subRequests[SubConn(FirstOfGroup(g), ReSub)].subscribe # <<>>

\* C27: in runInflightTest a message that arrives on a client of subscriber
\* i, the original or the reconnected one, is recorded in the received set of
\* i and changes no other subscriber's set; the ledger has one set for each
\* of the numSubs subscribers, and a set only grows: nothing but an arrival
\* changes it, and no disconnect or reconnect clears or replaces it.
C27_LedgerPerSubscriber ==
    [][(Inflight /\ receivedMap # <<>>) =>
        /\ DOMAIN receivedMap' = 0 .. (numSubs - 1)
        /\ \A i \in SubIdx :
              /\ receivedMap[i] \subseteq receivedMap'[i]
              /\ receivedMap'[i] # receivedMap[i] => arrivals'[i] = arrivals[i] + 1
              /\ \A m \in inflight[i] \cup late[i] :
                    Arrived(i, m) =>
                        /\ StoredKey(m) \in receivedMap'[i]
                        /\ \A j \in SubIdx \ {i} : receivedMap'[j] = receivedMap[j]]_vars

C27_Witness ==
    /\ Inflight
    /\ numSubs = MaxSubs
    /\ halfwayTriggered
    /\ \A i \in SubIdx : subscribers[i] = ReSub /\ receivedMap[i] # {}
    /\ receivedMap[0] # receivedMap[1]
    /\ \E i \in SubIdx : arrivals[i] > halfwayCount

\* C28: the report rows of runInflightTest are created in the turn of the
\* drain timer only and never changed afterwards, like the verdicts, and the
\* verdicts and the rows are taken from one state of the ledger: a
\* subscriber's verdict is PASS exactly when all its rows have status Pass.
C28_RowsAndVerdict ==
    [][Inflight =>
        /\ (csvRows' # csvRows \/ verdict' # verdict) =>
              /\ pc = "drain"
              /\ timers[Main] # NoTimer
              /\ timers'[Main] = NoTimer
              /\ csvRows = <<>>
              /\ verdict = <<>>
        /\ verdict' # <<>> =>
              \A i \in SubIdx :
                  verdict'[i] = "PASS" <=>
                      \A k \in DOMAIN csvRows' :
                          csvRows'[k].subscriber = i => csvRows'[k].status = "Pass"]_vars

C28_Witness ==
    /\ Inflight
    /\ pc = "closingPubs"
    /\ numSubs = MaxSubs
    /\ verdict[0] = "FAIL"
    /\ verdict[1] = "PASS"
    /\ csvRows # <<>>
    /\ \E i \in SubIdx : arrivals[i] > Cardinality(
          {k \in DOMAIN csvRows : csvRows[k].subscriber = i /\ csvRows[k].status = "Pass"})

\* The sum of f[0], .., f[n - 1].
RECURSIVE SumUpTo(_, _)
SumUpTo(f, n) == IF n = 0 THEN 0 ELSE f[n - 1] + SumUpTo(f, n - 1)

\* C29: in every state of the multi-publisher driver totalPublished =
\* totalAcked + totalFailed, each total is the sum of the publishers'
\* counters, and every publisher has publishedCount = ackedCount +
\* failedCount = nextMsg - 1.
C29_CountersAgree ==
    driver.started =>
        /\ driver.totalPublished = driver.totalAcked + driver.totalFailed
        /\ driver.totalPublished =
              SumUpTo([p \in DriverPubs |-> driver.pubs[p].publishedCount], publisherCount)
        /\ driver.totalAcked =
              SumUpTo([p \in DriverPubs |-> driver.pubs[p].ackedCount], publisherCount)
        /\ driver.totalFailed =
              SumUpTo([p \in DriverPubs |-> driver.pubs[p].failedCount], publisherCount)
        /\ \A p \in DriverPubs :
              /\ driver.pubs[p].publishedCount =
                     driver.pubs[p].ackedCount + driver.pubs[p].failedCount
              /\ driver.pubs[p].publishedCount = driver.pubs[p].nextMsg - 1

C29_Witness ==
    /\ driver.started
    /\ publisherCount = MaxDriverPubs
    /\ driver.totalFailed = 1
    /\ driver.drops > 0
    /\ \A p \in DriverPubs : driver.pubs[p].ackedCount >= 1
    /\ \E p \in DriverPubs : driver.pubs[p].publishedCount > numberMessages

\* The payloads of a map in some order.
RECURSIVE SetToSeq(_)
SetToSeq(S) ==
    IF S = {} THEN <<>>
    ELSE LET x == CHOOSE y \in S : TRUE IN <<x>> \o SetToSeq(S \ {x})

\* The number of entries over all receiver lists of a map.
EntryCount(recvMap) ==
    SumOver([payload \in DOMAIN recvMap |-> Len(recvMap[payload])], DOMAIN recvMap)

\* Every map with the payloads and the list lengths of recvMap and with its
\* entries given to the subscribers of subs in any way.
Redistributions(recvMap, subs) ==
    LET order == SetToSeq(DOMAIN recvMap)
        pos(payload) == CHOOSE k \in DOMAIN order : order[k] = payload
        offset(payload) ==
            SumOver([k \in 1 .. (pos(payload) - 1) |-> Len(recvMap[order[k]])],
                    1 .. (pos(payload) - 1))
    IN {[payload \in DOMAIN recvMap |->
            [n \in 1 .. Len(recvMap[payload]) |-> a[offset(payload) + n]]] :
        a \in [1 .. EntryCount(recvMap) -> subs]}

\* C30: in runSharedSubscriptionTest, at the verification, for every group
\* the per-subscriber tallies add up to the number of entries over all
\* receiver lists of the group's map, and the group's verdict is the verdict
\* of every map with the same payloads and list lengths whose entries are
\* distributed among the group's subscribers in any other way.
C30_TallyAndVerdict ==
    [][(Shared /\ pc = "drain" /\ pc' = "closingSubs") =>
          \A g \in GroupIdx :
              /\ total(g) = EntryCount(groupsReceivedMap[g])
              /\ \A other \in Redistributions(groupsReceivedMap[g], Members(g)) :
                    (verdict'[g] = "PASS") <=> groupPassOf(other)]_vars

C30_Witness ==
    /\ Shared
    /\ pc = "closingSubs"
    /\ subsPerGroup = 2
    /\ verdict[0] = "FAIL"
    /\ \A i \in Members(0) : subCount(0)[i] >= 1
    /\ total(0) > totalMessages
    /\ \E payload \in DOMAIN groupsReceivedMap[0] :
          /\ Len(groupsReceivedMap[0][payload]) = 2
          /\ groupsReceivedMap[0][payload][1] # groupsReceivedMap[0][payload][2]

\* C31: in runSharedSubscriptionTest an arrival on a subscriber appends that
\* subscriber to the receiver list of the payload, also when the subscriber
\* is in the list already; at the verification a payload listed twice for
\* one subscriber is among the duplicates, its row has status Fail and the
\* verdict of the group is FAIL.
C31_SameSubscriberTwice ==
    [][Shared =>
          /\ \A i \in SubIdx :
                arrivals'[i] = arrivals[i] + 1 =>
                    \A m \in (inflight[i] \ inflight'[i]) \cup (late[i] \ late'[i]) :
                        LET g == GroupOf(i)
                            old == IF Trim(m) \in DOMAIN groupsReceivedMap[g]
                                   THEN groupsReceivedMap[g][Trim(m)] ELSE <<>>
                        IN /\ Trim(m) \in DOMAIN groupsReceivedMap'[g]
                           /\ groupsReceivedMap'[g][Trim(m)] = Append(old, i)
          /\ (pc = "drain" /\ pc' = "closingSubs") =>
                \A g \in GroupIdx : \A payload \in DOMAIN groupsReceivedMap[g] :
                    (/\ Len(groupsReceivedMap[g][payload]) = 2
                     /\ groupsReceivedMap[g][payload][1] = groupsReceivedMap[g][payload][2]) =>
                        /\ payload \in duplicates(g)
                        /\ verdict'[g] = "FAIL"
                        /\ \A k \in DOMAIN csvRows' :
                              (/\ csvRows'[k].group = g
                               /\ Payload(csvRows'[k].publisher, csvRows'[k].sequence) = payload) =>
                                  csvRows'[k].status = "Fail"]_vars

C31_Witness ==
    /\ Shared
    /\ pc = "closingSubs"
    /\ halfwayTriggered
    /\ \E g \in GroupIdx : \E k \in DOMAIN csvRows :
          LET payload == Payload(csvRows[k].publisher, csvRows[k].sequence) IN
          /\ csvRows[k].group = g
          /\ csvRows[k].status = "Fail"
          /\ verdict[g] = "FAIL"
          /\ payload \in DOMAIN groupsReceivedMap[g]
          /\ Len(groupsReceivedMap[g][payload]) = 2
          /\ groupsReceivedMap[g][payload][1] = groupsReceivedMap[g][payload][2]
          /\ subscribers[groupsReceivedMap[g][payload][1]] = ReSub

\* C32: in runSharedSubscriptionTest with edgeDisconnect the first created
\* subscriber of every group, and no other, is disconnected and later, once,
\* reconnected; every other subscriber keeps its original client, which is
\* not ended before the teardown; an arrival in a group changes the receiver
\* map of that group only.
C32_OnePerGroup ==
    [][(Shared /\ pc # "start") =>
          LET first(g) == CHOOSE i \in Members(g) : \A j \in Members(g) : i <= j
              ended(st) == st \in {"closing", "closed"}
          IN
          /\ (halfwayTriggered' /\ ~halfwayTriggered) =>
                /\ edgeDisconnect
                /\ \A g \in GroupIdx :
                      /\ ~ended(conn[SubConn(first(g), Original)])
                      /\ ended(conn'[SubConn(first(g), Original)])
                      /\ timers'[ReconTimer(g)] # NoTimer
          /\ \A i \in DOMAIN subscribers :
                /\ subscribers'[i] # subscribers[i] =>
                      /\ i = first(GroupOf(i))
                      /\ halfwayTriggered
                      /\ subscribers[i] = Original
                      /\ subscribers'[i] = ReSub
                      /\ ended(conn[SubConn(i, Original)])
                      /\ conn[SubConn(i, ReSub)] = "none"
                      /\ conn'[SubConn(i, ReSub)] = "connecting"
                /\ i # first(GroupOf(i)) =>
                      /\ conn'[SubConn(i, ReSub)] = "none"
                      /\ (ended(conn'[SubConn(i, Original)])
                             /\ ~ended(conn[SubConn(i, Original)])) =>
                            (pc = "drain" /\ pc' = "closingSubs")
          /\ (pc = "drain" /\ pc' = "closingSubs" /\ edgeDisconnect) =>
                \A g \in GroupIdx : subscribers[first(g)] = ReSub
          /\ \A g \in DOMAIN groupsReceivedMap :
                groupsReceivedMap'[g] # groupsReceivedMap[g] =>
                    /\ \E i \in Members(g) : arrivals'[i] = arrivals[i] + 1
                    /\ \A h \in GroupIdx \ {g} :
                          groupsReceivedMap'[h] = groupsReceivedMap[h]]_vars

C32_Witness ==
    /\ Shared
    /\ edgeDisconnect
    /\ pc = "closingSubs"
    /\ totalMessages = 1
    /\ subsPerGroup = 2
    /\ ~halfwayTriggered
    /\ \A i \in SubIdx : subscribers[i] = Original /\ arrivals[i] <= 1
    /\ \E i \in SubIdx : arrivals[i] = 1

Churned == {i \in SubIdx : halfwayTriggered /\ (Inflight \/ i = FirstOfGroup(GroupOf(i)))}

\* C34: in both runners every subscriber disconnected by the fault injection
\* has been reconnected when the verification has read the ledger, the
\* teardown closes the reconnected client, and no client of the run is left
\* open when the process has exited.
C34_AllClosedAtExit ==
    /\ Verified => \A i \in Churned : subscribers[i] = ReSub
    /\ pc = "exited" =>
          /\ \A i \in Churned : conn[SubConn(i, ReSub)] = "closed"
          /\ \A c \in ConnIds : conn[c] \in {"none", "closed"}

C34_Witness ==
    /\ pc = "exited"
    /\ exitCode = 0
    /\ Churned # {}
    /\ \A i \in Churned : subscribers[i] = ReSub /\ conn[SubConn(i, ReSub)] = "closed"
    /\ \A p \in PubIdx : conn[PubConn(p)] = "closed"
    /\ \E i \in Churned : conn[SubConn(i, Original)] = "closing"

\* A SIGINT has been delivered to mqttMultiSubTester.
Signalled == tester.started /\ tester.handlers # <<>>

\* The process has exited with every started client ended and the totals
\* written (later batches may never have been started).
ExitedWithStartedEnded ==
    /\ tester.started
    /\ exitCode = 0
    /\ \A k \in DOMAIN tester.clients : tester.clients[k] \in {"closing", "closed"}
    /\ tester.summary = tester.globalTotal

\* C35: in mqttMultiSubTester, after a SIGINT every client that is ever
\* started is disconnected and the process eventually exits with code 0
\* with the final totals written, also when the SIGINT comes between two
\* batches and when it comes more than once.
C35_SigintExits == Signalled ~> ExitedWithStartedEnded

C35_Witness ==
    /\ Signalled
    /\ exitCode = Running
    /\ tester.launch = "done"
    /\ Len(tester.clients) > tester.handlers[1].size
    /\ tester.handlers[1].pending = {}
    /\ \A k \in DOMAIN tester.clients :
          tester.clients[k] = (IF k <= tester.handlers[1].size THEN "closed" ELSE "connected")

\* The sum over the workers of the latest total each has reported (0 for a
\* worker that has not reported).
ReportedSum(m) == SumUpTo([w \in WorkerIds |-> m.workers[w].reported], numWorkers)

\* C36: in mqttMultiSubMain the aggregated total that the statistics timer
\* prints is the sum over the workers of the latest total each worker has
\* reported, and so is the final total printed when all workers have exited.
C36_AggregatedTotal ==
    [][(main.started /\ main'.started) =>
          /\ main'.printed # main.printed => main'.printed = ReportedSum(main')
          /\ main'.final # main.final => main'.final = ReportedSum(main')]_vars

C36_Witness ==
    /\ main.started
    /\ exitCode = 0
    /\ numWorkers = 2
    /\ main.workers[0].reported = 2
    /\ main.workers[1].reported = 0
    /\ main.printed = 4
    /\ main.final = 0

\* The places (worker, position in its clients array) where index idx has
\* been started.
StartsOf(idx) ==
    {<<w, k>> \in WorkerIds \X (1 .. clientCount) :
        k \in DOMAIN main.workers[w].clients /\ main.workers[w].clients[k] = idx}

\* C37: in mqttMultiSubMain and its worker, for every clientCount >= 1 the
\* ranges [startIndex, endIndex) of the workers are pairwise disjoint and
\* cover exactly 0 .. clientCount - 1; a worker starts only indices of its
\* range, none twice, and all of them by the end of its batch loop, so that
\* every client index is started exactly once.
C37_EveryClientOnce ==
    main.started =>
        /\ clientCount >= 1
        /\ \A w \in WorkerIds :
              /\ 0 <= main.workers[w].startIndex
              /\ main.workers[w].startIndex <= main.workers[w].endIndex
              /\ main.workers[w].endIndex <= clientCount
        /\ \A idx \in 0 .. (clientCount - 1) :
              /\ Cardinality({w \in WorkerIds :
                                 /\ main.workers[w].startIndex <= idx
                                 /\ idx < main.workers[w].endIndex}) = 1
              /\ Cardinality(StartsOf(idx)) <= 1
              /\ \A x \in StartsOf(idx) :
                    /\ main.workers[x[1]].startIndex <= idx
                    /\ idx < main.workers[x[1]].endIndex
        /\ \A w \in WorkerIds :
              /\ Len(main.workers[w].clients) <=
                     main.workers[w].endIndex - main.workers[w].startIndex
              /\ main.workers[w].phase = "running" =>
                    \A idx \in main.workers[w].startIndex .. (main.workers[w].endIndex - 1) :
                        \E k \in DOMAIN main.workers[w].clients :
                            main.workers[w].clients[k] = idx

C37_Witness ==
    /\ main.started
    /\ clientCount = MaxLaunchClients
    /\ numWorkers = cpuCount
    /\ \A w \in WorkerIds : main.workers[w].phase = "running"
    /\ \A idx \in 0 .. (clientCount - 1) : Cardinality(StartsOf(idx)) = 1
    /\ Len(main.workers[numWorkers - 1].clients) > batch
    /\ Len(main.workers[numWorkers - 1].clients) > Len(main.workers[0].clients)

====
